---- MODULE Spec2Model ----
(***************************************************************************)
(* A model of freeciv-rs: the tile terrain/transform state machine of      *)
(* src/tiles/tile.rs (Spec), the grid addressing of src/world/world.rs     *)
(* (SpecWorld) and the two world generators, src/world/generator.rs        *)
(* (SpecGen) and src/world/generator_perlin_simple.rs (SpecPerlin).        *)
(***************************************************************************)
EXTENDS Integers, Sequences, FiniteSets, TLC

(***************************************************************************)
(* Bounds of the model.                                                    *)
(***************************************************************************)
\* How many of the nine terrain-independent flags a freshly created tile may
\* carry, when it does not carry all nine of them.
MaxOtherFlags == 0

\* How many of the special resources (in declaration order) a freshly created
\* tile may carry, besides Special::None.
MaxSpecial == 2

(***************************************************************************)
(* Data types of tile.rs.                                                  *)
(***************************************************************************)
\* TransformStatus::turns_remaining and the rule table's turns are u8.
U8 == 256

Terrain ==
    { "DeepOcean", "Desert", "Forest", "Glacier", "Grassland", "Hills", "Jungle",
      "Lake", "Mountains", "Ocean", "Plains", "Swamp", "Tundra" }

Transform == { "Irrigation", "Mining", "Road", "Transforming" }

Special ==
    << "Oasis", "Oil", "Pheasant", "Silk", "Ivory", "Resources", "Coal", "Wine",
       "Gems", "Fruit", "Fish", "Gold", "Iron", "Whales", "Buffalo", "Wheat",
       "Peat", "Spice", "Game", "Furs" >>

Flags ==
    { "HAS_RIVER", "HAS_ROAD", "HAS_IRRIGATION", "HAS_MINE", "HAS_RAILROAD",
      "HAS_RUINS", "HAS_POLLUTION", "HAS_FORT", "HAS_NUCLEAR_FALLOUT", "HAS_HUT",
      "HAS_FARMLAND", "HAS_CITY" }

NotTransforming == [tag |-> "NotTransforming"]

Transforming(transform, turns_remaining) ==
    [tag |-> "Transforming", transform |-> transform,
     turns_remaining |-> turns_remaining]

Possible(turns) == [tag |-> "Possible", turns |-> turns]

Impossible == [tag |-> "Impossible"]

(***************************************************************************)
(* TransformOutcome and its constructors.                                  *)
(***************************************************************************)
irrigation(turns) == [tag |-> "BuildIrrigation", turns |-> turns]

mine(turns) == [tag |-> "BuildMine", turns |-> turns]

road(turns) == [tag |-> "BuildRoad", turns |-> turns]

TransformTo(terrain, turns) ==
    [tag |-> "TransformTo", terrain |-> terrain, turns |-> turns]

desert(turns) == TransformTo("Desert", turns)

forest(turns) == TransformTo("Forest", turns)

grassland(turns) == TransformTo("Grassland", turns)

hills(turns) == TransformTo("Hills", turns)

ocean(turns) == TransformTo("Ocean", turns)

plains(turns) == TransformTo("Plains", turns)

\* swamp that names the wrong terrain.
swamp_to_forest(turns) == TransformTo("Forest", turns)

swamp(turns) == TransformTo("Swamp", turns)

tundra(turns) == TransformTo("Tundra", turns)

impossible == [tag |-> "Impossible"]

(***************************************************************************)
(* Terrain::transform: the rule table.                                     *)
(***************************************************************************)
Terrain_transform(self, transform) ==
    CASE self = "DeepOcean" -> impossible
      [] self = "Desert" ->
            (CASE transform = "Irrigation" -> irrigation(5)
               [] transform = "Mining" -> mine(5)
               [] transform = "Road" -> road(2)
               [] transform = "Transforming" -> plains(24))
      [] self = "Forest" ->
            (CASE transform = "Irrigation" -> plains(5)
               [] transform = "Mining" -> swamp(15)
               [] transform = "Road" -> road(4)
               [] transform = "Transforming" -> grassland(24))
      [] self = "Glacier" ->
            (CASE transform = "Irrigation" -> impossible
               [] transform = "Mining" -> mine(10)
               [] transform = "Road" -> road(4)
               [] transform = "Transforming" -> tundra(24))
      [] self = "Grassland" ->
            (CASE transform = "Irrigation" -> irrigation(5)
               [] transform = "Mining" -> forest(10)
               [] transform = "Road" -> road(2)
               [] transform = "Transforming" -> hills(24))
      [] self = "Hills" ->
            (CASE transform = "Irrigation" -> irrigation(10)
               [] transform = "Mining" -> mine(10)
               [] transform = "Road" -> road(4)
               [] transform = "Transforming" -> plains(24))
      [] self = "Jungle" ->
            (CASE transform = "Irrigation" -> grassland(15)
               [] transform = "Mining" -> forest(15)
               [] transform = "Road" -> road(4)
               [] transform = "Transforming" -> plains(24))
      [] self = "Lake" ->
            (CASE transform \in {"Irrigation", "Mining", "Road"} -> impossible
               [] transform = "Transforming" -> swamp(36))
      [] self = "Mountains" ->
            (CASE transform = "Irrigation" -> impossible
               [] transform = "Mining" -> mine(10)
               [] transform = "Road" -> road(6)
               [] transform = "Transforming" -> hills(24))
      [] self = "Ocean" ->
            (CASE transform \in {"Irrigation", "Mining", "Road"} -> impossible
               [] transform = "Transforming" -> swamp(36))
      [] self = "Plains" ->
            (CASE transform = "Irrigation" -> irrigation(5)
               [] transform = "Mining" -> forest(15)
               [] transform = "Road" -> road(2)
               [] transform = "Transforming" -> grassland(24))
      [] self = "Swamp" ->
            (CASE transform = "Irrigation" -> grassland(15)
               [] transform = "Mining" -> forest(15)
               [] transform = "Road" -> road(4)
               [] transform = "Transforming" -> ocean(36))
      [] self = "Tundra" ->
            (CASE transform = "Irrigation" -> irrigation(5)
               [] transform = "Mining" -> impossible
               [] transform = "Road" -> road(2)
               [] transform = "Transforming" -> desert(24))

(***************************************************************************)
(* Tile.                                                                   *)
(***************************************************************************)
Tile_new(terrain, special, flags) ==
    [terrain |-> terrain, special |-> special, flags |-> flags,
     transform_status |-> NotTransforming]

\* start_transform that tests the flag of the transform kind before it looks
\* at the rule-table entry: an irrigated tile refuses Irrigation on any terrain.
start_transform_flag_first(self, transform) ==
    LET outcome == Terrain_transform(self.terrain, transform)
        started == [tile |-> [self EXCEPT !.transform_status =
                                  Transforming(transform, outcome.turns)],
                    result |-> Possible(outcome.turns)]
        refused == [tile |-> self, result |-> Impossible]
    IN  CASE transform = "Irrigation" /\ "HAS_IRRIGATION" \in self.flags -> refused
          [] transform = "Mining" /\ "HAS_MINE" \in self.flags -> refused
          [] transform = "Road" /\ "HAS_ROAD" \in self.flags -> refused
          [] outcome.tag = "Impossible" -> refused
          [] OTHER -> started

\* start_transform without the HAS_MINE test of its BuildMine arm.
start_transform_remine(self, transform) ==
    LET outcome == Terrain_transform(self.terrain, transform)
        started == [tile |-> [self EXCEPT !.transform_status =
                                  Transforming(transform, outcome.turns)],
                    result |-> Possible(outcome.turns)]
        refused == [tile |-> self, result |-> Impossible]
    IN  CASE outcome.tag = "BuildIrrigation" ->
                IF "HAS_IRRIGATION" \in self.flags THEN refused ELSE started
          [] outcome.tag = "BuildMine" -> started
          [] outcome.tag = "BuildRoad" ->
                IF "HAS_ROAD" \in self.flags THEN refused ELSE started
          [] outcome.tag = "Impossible" -> refused
          [] outcome.tag = "TransformTo" -> started

\* start_transform that builds the road at once instead of on completion.
start_transform_eager_road(self, transform) ==
    LET outcome == Terrain_transform(self.terrain, transform)
        started == [tile |-> [self EXCEPT !.transform_status =
                                  Transforming(transform, outcome.turns)],
                    result |-> Possible(outcome.turns)]
        refused == [tile |-> self, result |-> Impossible]
    IN  CASE outcome.tag = "BuildIrrigation" ->
                IF "HAS_IRRIGATION" \in self.flags THEN refused ELSE started
          [] outcome.tag = "BuildMine" ->
                IF "HAS_MINE" \in self.flags THEN refused ELSE started
          [] outcome.tag = "BuildRoad" ->
                IF "HAS_ROAD" \in self.flags THEN refused
                ELSE [started EXCEPT !.tile.flags = @ \cup {"HAS_ROAD"}]
          [] outcome.tag = "Impossible" -> refused
          [] outcome.tag = "TransformTo" -> started

\* start_transform that records the transform although the entry is
\* Impossible.
start_transform_unchecked(self, transform) ==
    LET outcome == Terrain_transform(self.terrain, transform)
        started == [tile |-> [self EXCEPT !.transform_status =
                                  Transforming(transform, outcome.turns)],
                    result |-> Possible(outcome.turns)]
        refused == [tile |-> self, result |-> Impossible]
    IN  CASE outcome.tag = "BuildIrrigation" ->
                IF "HAS_IRRIGATION" \in self.flags THEN refused ELSE started
          [] outcome.tag = "BuildMine" ->
                IF "HAS_MINE" \in self.flags THEN refused ELSE started
          [] outcome.tag = "BuildRoad" ->
                IF "HAS_ROAD" \in self.flags THEN refused ELSE started
          [] outcome.tag = "Impossible" ->
                [tile |-> [self EXCEPT !.transform_status =
                               Transforming(transform, 1)],
                 result |-> Impossible]
          [] outcome.tag = "TransformTo" -> started

\* Tile::start_transform: the tile after the call and the returned value.
start_transform(self, transform) ==
    LET outcome == Terrain_transform(self.terrain, transform)
        started == [tile |-> [self EXCEPT !.transform_status =
                                  Transforming(transform, outcome.turns)],
                    result |-> Possible(outcome.turns)]
        refused == [tile |-> self, result |-> Impossible]
    IN  CASE outcome.tag = "BuildIrrigation" ->
                IF "HAS_IRRIGATION" \in self.flags THEN refused ELSE started
          [] outcome.tag = "BuildMine" ->
                IF "HAS_MINE" \in self.flags THEN refused ELSE started
          [] outcome.tag = "BuildRoad" ->
                IF "HAS_ROAD" \in self.flags THEN refused ELSE started
          [] outcome.tag = "Impossible" -> refused
          [] outcome.tag = "TransformTo" -> started

\* The flags change_terrain removes on a terrain other than Ocean, given the
\* three transforms it queries for irrigation, mine and road.
removed_flags(terrain, for_irrigation, for_mine, for_road) ==
    (IF Terrain_transform(terrain, for_irrigation).tag # "BuildIrrigation"
     THEN {"HAS_IRRIGATION"} ELSE {})
    \cup (IF Terrain_transform(terrain, for_mine).tag # "BuildMine"
          THEN {"HAS_MINE"} ELSE {})
    \cup (IF Terrain_transform(terrain, for_road).tag # "BuildRoad"
          THEN {"HAS_ROAD"} ELSE {})

\* change_terrain without the Ocean case: Ocean is treated like any terrain.
change_terrain_no_ocean_case(self, terrain) ==
    [self EXCEPT !.terrain = terrain,
                 !.special = "None",
                 !.flags = @ \ removed_flags(terrain, "Irrigation", "Mining", "Road")]

\* change_terrain that leaves the special resource on the tile.
change_terrain_keeps_special(self, terrain) ==
    [self EXCEPT !.terrain = terrain,
                 !.flags = IF terrain = "Ocean" THEN {}
                           ELSE @ \ removed_flags(terrain, "Irrigation", "Mining", "Road")]

\* change_terrain whose mine test queries Transform::Irrigation.
change_terrain_mine_by_irrigation(self, terrain) ==
    [self EXCEPT !.terrain = terrain,
                 !.special = "None",
                 !.flags = IF terrain = "Ocean" THEN {}
                           ELSE @ \ removed_flags(terrain, "Irrigation", "Irrigation", "Road")]

\* change_terrain that removes farmland together with irrigation.
change_terrain_drops_farmland(self, terrain) ==
    LET removed == removed_flags(terrain, "Irrigation", "Mining", "Road")
    IN  [self EXCEPT !.terrain = terrain,
                     !.special = "None",
                     !.flags = IF terrain = "Ocean" THEN {}
                               ELSE IF "HAS_IRRIGATION" \in removed
                               THEN @ \ (removed \cup {"HAS_FARMLAND"})
                               ELSE @ \ removed]

\* change_terrain that leaves the flags as they are.
change_terrain_keeps_flags(self, terrain) ==
    [self EXCEPT !.terrain = terrain,
                 !.special = "None"]

\* Tile::change_terrain.
change_terrain(self, terrain) ==
    [self EXCEPT !.terrain = terrain,
                 !.special = "None",
                 !.flags = IF terrain = "Ocean" THEN {}
                           ELSE @ \ removed_flags(terrain, "Irrigation", "Mining", "Road")]

\* apply_outcome whose BuildMine arm sets HAS_IRRIGATION.
apply_outcome_mine_as_irrigation(self, transform) ==
    LET outcome == Terrain_transform(self.terrain, transform)
    IN  CASE outcome.tag = "BuildIrrigation" ->
                [tile |-> [self EXCEPT !.flags = @ \cup {"HAS_IRRIGATION"},
                                       !.transform_status = NotTransforming],
                 panic |-> "none"]
          [] outcome.tag = "BuildMine" ->
                [tile |-> [self EXCEPT !.flags = @ \cup {"HAS_IRRIGATION"},
                                       !.transform_status = NotTransforming],
                 panic |-> "none"]
          [] outcome.tag = "BuildRoad" ->
                [tile |-> [self EXCEPT !.flags = @ \cup {"HAS_ROAD"},
                                       !.transform_status = NotTransforming],
                 panic |-> "none"]
          [] outcome.tag = "Impossible" ->
                [tile |-> self, panic |-> "unreachable"]
          [] outcome.tag = "TransformTo" ->
                [tile |-> [change_terrain(self, outcome.terrain)
                              EXCEPT !.transform_status = NotTransforming],
                 panic |-> "none"]

\* The second half of Tile::tick_transform: the pending transform is due, its
\* outcome on the current terrain is applied and the status is reset.
apply_outcome(self, transform) ==
    LET outcome == Terrain_transform(self.terrain, transform)
    IN  CASE outcome.tag = "BuildIrrigation" ->
                [tile |-> [self EXCEPT !.flags = @ \cup {"HAS_IRRIGATION"},
                                       !.transform_status = NotTransforming],
                 panic |-> "none"]
          [] outcome.tag = "BuildMine" ->
                [tile |-> [self EXCEPT !.flags = @ \cup {"HAS_MINE"},
                                       !.transform_status = NotTransforming],
                 panic |-> "none"]
          [] outcome.tag = "BuildRoad" ->
                [tile |-> [self EXCEPT !.flags = @ \cup {"HAS_ROAD"},
                                       !.transform_status = NotTransforming],
                 panic |-> "none"]
          [] outcome.tag = "Impossible" ->
                [tile |-> self, panic |-> "unreachable"]
          [] outcome.tag = "TransformTo" ->
                [tile |-> [change_terrain(self, outcome.terrain)
                              EXCEPT !.transform_status = NotTransforming],
                 panic |-> "none"]

\* Tile::tick_transform with the number that turns_remaining must exceed after
\* the decrement for the call to return early (0 in the source).
tick_with_floor(self, overflow_checks, floor) ==
    IF self.transform_status.tag = "NotTransforming"
    THEN [tile |-> self, panic |-> "none"]
    ELSE IF self.transform_status.turns_remaining = 0 /\ overflow_checks
    THEN [tile |-> self, panic |-> "overflow"]
    ELSE LET turns_remaining ==
                 (self.transform_status.turns_remaining - 1) % U8
             ticked == [self EXCEPT !.transform_status.turns_remaining =
                                        turns_remaining]
         IN  IF turns_remaining > floor
             THEN [tile |-> ticked, panic |-> "none"]
             ELSE apply_outcome(ticked, self.transform_status.transform)

\* tick_transform that completes one turn early (turns_remaining > 1).
tick_transform_early(self, overflow_checks) ==
    tick_with_floor(self, overflow_checks, 1)

\* tick_transform that tests turns_remaining >= 0 and so never completes.
tick_transform_never_due(self, overflow_checks) ==
    tick_with_floor(self, overflow_checks, -1)

\* Tile::tick_transform: the tile after the call and whether the call panicked.
\* `turns_remaining -= 1` on a u8 holding 0 panics in a build with overflow
\* checks and wraps around in a build without them; the call returns early
\* while turns_remaining > 0.
tick_transform(self, overflow_checks) ==
    tick_with_floor(self, overflow_checks, 0)

(***************************************************************************)
(* The state: one tile, driven by start_transform, tick_transform and      *)
(* tick_until_transform_done.                                              *)
(***************************************************************************)
VARIABLES
    tile,       \* the Tile: terrain, special, flags, transform_status
    panicked,   \* "none", or the panic that ended the program
    pc,         \* "idle", or "ticking" inside tick_until_transform_done's loop
    call        \* the call made last: its arguments, the tile before it, its result

\* The state of the other parts of the program: a World and a reference into
\* it (world.rs), and the two generators at work (generator.rs,
\* generator_perlin_simple.rs).
VARIABLES
    world,      \* the World: width, height, wrapping_x, wrapping_y
    tile_ref,   \* the Option<TileRef> returned last
    lookup,     \* the lookup made last: its name, arguments and receiver
    gen,        \* generator.rs generate: its position, parameters and locals
    perlin      \* generator_perlin_simple.rs generate: the same

\* The technology tree (technology.rs).
VARIABLES
    research    \* the call of total_bulbs or total_bulbs_for_combined at work

vars == << tile, panicked, pc, call, world, tile_ref, lookup, gen, perlin, research >>

tile_vars == << tile, panicked, pc, call >>

world_vars == << world, tile_ref, lookup >>

\* Option<TileRef>::None, and the values of the parts that are not at work.
NoTile == [some |-> FALSE]

TileIdle ==
    /\ tile = Tile_new("Ocean", "None", {})
    /\ panicked = "none"
    /\ pc = "idle"
    /\ call = [op |-> "new"]

WorldIdle ==
    /\ world = [width |-> 1, height |-> 1, wrapping_x |-> FALSE, wrapping_y |-> FALSE]
    /\ tile_ref = NoTile
    /\ lookup = [op |-> "new"]

GenIdle == gen = [pc |-> "idle"]

PerlinIdle == perlin = [pc |-> "idle"]

ResearchIdle == research = [pc |-> "idle"]

\* The flags change_terrain re-evaluates, and the other nine.
TerrainFlags == { "HAS_IRRIGATION", "HAS_MINE", "HAS_ROAD" }

OtherFlags == Flags \ TerrainFlags

\* The arguments Tile::new is called with.
NewSpecials == { "None" } \cup { Special[i] : i \in 1..MaxSpecial }

NewFlags ==
    { d \cup o :
        d \in SUBSET TerrainFlags,
        o \in { f \in SUBSET OtherFlags : Cardinality(f) <= MaxOtherFlags }
                 \cup { OtherFlags } }

Init ==
    /\ tile \in { Tile_new(terrain, special, flags) :
                     terrain \in Terrain, special \in NewSpecials, flags \in NewFlags }
    /\ panicked = "none"
    /\ pc = "idle"
    /\ call = [op |-> "new"]
    /\ WorldIdle
    /\ GenIdle
    /\ PerlinIdle
    /\ ResearchIdle

\* A call of tile.start_transform(transform).
StartTransform ==
    /\ pc = "idle"
    /\ panicked = "none"
    /\ \E transform \in Transform :
          LET r == start_transform(tile, transform)
          IN  /\ tile' = r.tile
              /\ call' = [op |-> "start_transform", transform |-> transform,
                          pre |-> tile, result |-> r.result]
    /\ UNCHANGED << panicked, pc, world_vars, gen, perlin, research >>

\* A call of tile.tick_transform().
TickTransform ==
    /\ pc = "idle"
    /\ panicked = "none"
    /\ \E overflow_checks \in BOOLEAN :
          LET r == tick_transform(tile, overflow_checks)
          IN  /\ tile' = r.tile
              /\ panicked' = r.panic
    /\ call' = [op |-> "tick_transform", pre |-> tile]
    /\ UNCHANGED << pc, world_vars, gen, perlin, research >>

\* A call of tile.tick_until_transform_done(): the loop is entered.
TickUntilTransformDone ==
    /\ pc = "idle"
    /\ panicked = "none"
    /\ pc' = "ticking"
    /\ call' = [op |-> "tick_until_transform_done", entry |-> tile, pre |-> tile,
                ticks |-> 0]
    /\ UNCHANGED << tile, panicked, world_vars, gen, perlin, research >>

\* One iteration of the loop: the condition holds, tick_transform is called.
LoopTick ==
    /\ pc = "ticking"
    /\ panicked = "none"
    /\ tile.transform_status # NotTransforming
    /\ \E overflow_checks \in BOOLEAN :
          LET r == tick_transform(tile, overflow_checks)
          IN  /\ tile' = r.tile
              /\ panicked' = r.panic
    /\ call' = [call EXCEPT !.pre = tile, !.ticks = @ + 1]
    /\ UNCHANGED << pc, world_vars, gen, perlin, research >>

\* The loop condition fails: tick_until_transform_done returns.
LoopDone ==
    /\ pc = "ticking"
    /\ panicked = "none"
    /\ tile.transform_status = NotTransforming
    /\ pc' = "idle"
    /\ UNCHANGED << tile, panicked, call, world_vars, gen, perlin, research >>

Next ==
    \/ StartTransform
    \/ TickTransform
    \/ TickUntilTransformDone
    \/ LoopTick
    \/ LoopDone

Spec == Init /\ [][Next]_vars

\* The tile was created with empty flags.
InitFresh ==
    /\ Init
    /\ tile.flags = {}

SpecFresh == InitFresh /\ [][Next]_vars

(***************************************************************************)
(* Properties of start_transform.                                          *)
(***************************************************************************)
\* The last call was start_transform.
Started == call.op = "start_transform"

\* The rule-table entry the last start_transform looked up.
StartedEntry == Terrain_transform(call.pre.terrain, call.transform)

\* The last start_transform found the flag of a BuildFlag entry already set.
StartedFlagSet ==
    \/ StartedEntry.tag = "BuildIrrigation" /\ "HAS_IRRIGATION" \in call.pre.flags
    \/ StartedEntry.tag = "BuildMine" /\ "HAS_MINE" \in call.pre.flags
    \/ StartedEntry.tag = "BuildRoad" /\ "HAS_ROAD" \in call.pre.flags

\* C1: on a tile that is NotTransforming, start_transform(kind) returns
\* Impossible exactly when the rule-table entry for (terrain, kind) is
\* Impossible or is a BuildFlag entry whose flag the tile already carries, and
\* returns Possible in every other case.
C1_ImpossibleIff ==
    (Started /\ call.pre.transform_status = NotTransforming) =>
        /\ (call.result = Impossible) <=>
               (StartedEntry.tag = "Impossible" \/ StartedFlagSet)
        /\ (call.result # Impossible) => (call.result.tag = "Possible")

\* A re-mine is refused on a tile that could otherwise be mined.
C1_Witness ==
    /\ Started
    /\ call.pre.transform_status = NotTransforming
    /\ StartedEntry.tag = "BuildMine"
    /\ "HAS_MINE" \in call.pre.flags
    /\ call.result = Impossible

\* C2: when start_transform(kind) returns Possible{turns}, the status becomes
\* Transforming{kind, turns_remaining = turns}, turns is the rule-table value
\* for (terrain, kind), and terrain, special and flags are as before the call.
C2_PossibleStartsOnly ==
    (Started /\ call.result.tag = "Possible") =>
        /\ tile.transform_status = Transforming(call.transform, call.result.turns)
        /\ call.result.turns = StartedEntry.turns
        /\ tile.terrain = call.pre.terrain
        /\ tile.special = call.pre.special
        /\ tile.flags = call.pre.flags

\* A road is started on a tile that carries flags and a special resource.
C2_Witness ==
    /\ Started
    /\ call.result.tag = "Possible"
    /\ call.transform = "Road"
    /\ call.pre.flags # {}
    /\ call.pre.special # "None"

\* C3: start_transform on a tile that is already Transforming returns
\* Impossible and leaves the transform in progress as it was.
C3_RejectedWhileTransforming ==
    (Started /\ call.pre.transform_status.tag = "Transforming") =>
        /\ call.result = Impossible
        /\ tile.transform_status = call.pre.transform_status

(***************************************************************************)
(* Properties of tick_transform.                                           *)
(***************************************************************************)
\* The last thing that ran was a tick_transform, called directly or by the
\* loop of tick_until_transform_done; call.pre is the tile before it.
Ticked ==
    \/ call.op = "tick_transform"
    \/ call.op = "tick_until_transform_done" /\ call.ticks > 0

\* That tick_transform brought turns_remaining from 1 to 0.
Completed ==
    /\ Ticked
    /\ call.pre.transform_status.tag = "Transforming"
    /\ call.pre.transform_status.turns_remaining = 1

\* The rule-table entry of the transform that was due.
CompletedEntry ==
    Terrain_transform(call.pre.terrain, call.pre.transform_status.transform)

\* That tick_transform changed the terrain.
TerrainChanged == Completed /\ CompletedEntry.tag = "TransformTo"

\* C4: the tick_transform that brings turns_remaining to 0 applies the
\* rule-table outcome for (terrain, kind) in the same call: a BuildFlag
\* outcome sets exactly its flag and leaves the terrain, a TransformTo(t)
\* outcome runs the terrain-change cascade with t; the status is then
\* NotTransforming.
C4_OutcomeApplied ==
    Completed =>
        /\ panicked = "none"
        /\ tile.transform_status = NotTransforming
        /\ CompletedEntry.tag = "BuildIrrigation" =>
              /\ tile.flags = call.pre.flags \cup {"HAS_IRRIGATION"}
              /\ tile.terrain = call.pre.terrain
        /\ CompletedEntry.tag = "BuildMine" =>
              /\ tile.flags = call.pre.flags \cup {"HAS_MINE"}
              /\ tile.terrain = call.pre.terrain
        /\ CompletedEntry.tag = "BuildRoad" =>
              /\ tile.flags = call.pre.flags \cup {"HAS_ROAD"}
              /\ tile.terrain = call.pre.terrain
        /\ CompletedEntry.tag = "TransformTo" =>
              /\ tile.terrain = CompletedEntry.terrain
              /\ tile = [change_terrain(call.pre, CompletedEntry.terrain)
                            EXCEPT !.transform_status = NotTransforming]
        /\ CompletedEntry.tag # "Impossible"

\* A mine is completed on a tile that had none.
C4_Witness ==
    /\ Completed
    /\ CompletedEntry.tag = "BuildMine"
    /\ "HAS_MINE" \notin call.pre.flags
    /\ "HAS_MINE" \in tile.flags

\* C5: tick_until_transform_done entered with turns_remaining = n makes
\* exactly n calls of tick_transform; after each of the first n-1 the tile is
\* Transforming with one turn less and terrain, flags and special as at
\* entry, after the n-th it is NotTransforming and the loop returns.
C5_LoopTicksExactly ==
    (call.op = "tick_until_transform_done"
        /\ call.entry.transform_status.tag = "Transforming") =>
        LET n == call.entry.transform_status.turns_remaining
        IN  /\ panicked = "none"
            /\ call.ticks <= n
            /\ (call.ticks < n) =>
                  /\ tile = [call.entry EXCEPT
                                !.transform_status.turns_remaining = n - call.ticks]
                  /\ pc = "ticking"
            /\ (call.ticks = n) => (tile.transform_status = NotTransforming)
            /\ (pc = "idle") => (call.ticks = n)

\* Hills + Mining, 10 turns: the loop has returned after 10 ticks, with the mine.
C5_Witness ==
    /\ call.op = "tick_until_transform_done"
    /\ pc = "idle"
    /\ call.entry.terrain = "Hills"
    /\ call.entry.transform_status = Transforming("Mining", 10)
    /\ "HAS_MINE" \notin call.entry.flags
    /\ call.ticks = 10
    /\ tile.terrain = "Hills"
    /\ "HAS_MINE" \in tile.flags

\* C6: a Transforming status never has turns_remaining = 0, so the decrement
\* of tick_transform never underflows.
C6_TurnsRemainingPositive ==
    /\ (tile.transform_status.tag = "Transforming") =>
          (tile.transform_status.turns_remaining >= 1)
    /\ panicked # "overflow"

\* A transform is one tick from completion, after a tick.
C6_Witness ==
    /\ Ticked
    /\ tile.transform_status.tag = "Transforming"
    /\ tile.transform_status.turns_remaining = 1

(***************************************************************************)
(* Properties of the terrain-change cascade.                               *)
(***************************************************************************)
\* C7: when a transform completes with new terrain Ocean, the tile has no
\* flags and no special resource afterwards.
C7_OceanClearsAll ==
    (TerrainChanged /\ CompletedEntry.terrain = "Ocean") =>
        /\ tile.terrain = "Ocean"
        /\ tile.flags = {}
        /\ tile.special = "None"

\* A Swamp carrying all flags and a special resource has become Ocean.
C7_Witness ==
    /\ TerrainChanged
    /\ call.pre.terrain = "Swamp"
    /\ tile.terrain = "Ocean"
    /\ call.pre.flags = Flags
    /\ call.pre.special # "None"

\* C8: every completed terrain change leaves special = None.
C8_SpecialCleared == TerrainChanged => (tile.special = "None")

\* A tile with a special resource has changed to a terrain other than Ocean.
C8_Witness ==
    /\ TerrainChanged
    /\ call.pre.special # "None"
    /\ tile.terrain # "Ocean"
    /\ tile.terrain # call.pre.terrain

\* C9: after a terrain change to a terrain other than Ocean, each of
\* HAS_IRRIGATION, HAS_MINE and HAS_ROAD is set exactly if it was set before
\* and the new terrain's entry for Irrigation, Mining or Road is the matching
\* BuildFlag outcome.
C9_TerrainFlagsReevaluated ==
    (TerrainChanged /\ CompletedEntry.terrain # "Ocean") =>
        LET new == CompletedEntry.terrain
        IN  /\ ("HAS_IRRIGATION" \in tile.flags) <=>
                  /\ "HAS_IRRIGATION" \in call.pre.flags
                  /\ Terrain_transform(new, "Irrigation").tag = "BuildIrrigation"
            /\ ("HAS_MINE" \in tile.flags) <=>
                  /\ "HAS_MINE" \in call.pre.flags
                  /\ Terrain_transform(new, "Mining").tag = "BuildMine"
            /\ ("HAS_ROAD" \in tile.flags) <=>
                  /\ "HAS_ROAD" \in call.pre.flags
                  /\ Terrain_transform(new, "Road").tag = "BuildRoad"

\* Hills with irrigation, mine and road has become Plains: the mine is gone,
\* irrigation and road stay.
C9_Witness ==
    /\ TerrainChanged
    /\ call.pre.terrain = "Hills"
    /\ tile.terrain = "Plains"
    /\ TerrainFlags \subseteq call.pre.flags
    /\ tile.flags \cap TerrainFlags = {"HAS_IRRIGATION", "HAS_ROAD"}

\* C10: a terrain change to a terrain other than Ocean leaves the nine flags
\* other than irrigation, mine and road as they were.
C10_OtherFlagsKept ==
    (TerrainChanged /\ CompletedEntry.terrain # "Ocean") =>
        (tile.flags \cap OtherFlags = call.pre.flags \cap OtherFlags)

\* A tile carrying all nine has changed terrain and lost its irrigation.
C10_Witness ==
    /\ TerrainChanged
    /\ tile.terrain # "Ocean"
    /\ OtherFlags \subseteq call.pre.flags
    /\ OtherFlags \subseteq tile.flags
    /\ "HAS_IRRIGATION" \in call.pre.flags
    /\ "HAS_IRRIGATION" \notin tile.flags

(***************************************************************************)
(* Properties of the rule table as start_transform and tick_transform use  *)
(* it.                                                                     *)
(***************************************************************************)
\* The last call was start_transform(Irrigation) on an irrigated tile.
StartedReirrigation ==
    /\ Started
    /\ call.transform = "Irrigation"
    /\ "HAS_IRRIGATION" \in call.pre.flags

\* C11 as stated: start_transform(Irrigation) on a tile that carries
\* HAS_IRRIGATION returns Impossible, whatever the terrain.
C11_ReirrigationImpossible ==
    StartedReirrigation => (call.result = Impossible)

\* C11 as amended: start_transform(Irrigation) on a tile that carries
\* HAS_IRRIGATION returns Impossible on the ten terrains whose Irrigation
\* entry is BuildIrrigation or Impossible, and Possible on Forest, Jungle and
\* Swamp, where Irrigation changes the terrain.
C11_ReirrigationImpossibleUnlessTerraform ==
    StartedReirrigation =>
        ((call.result = Impossible) <=>
            (call.pre.terrain \notin {"Forest", "Jungle", "Swamp"}))

\* An irrigated Hills tile has refused Irrigation.
C11_Witness ==
    /\ StartedReirrigation
    /\ call.pre.terrain = "Hills"
    /\ call.result = Impossible

\* The terrain rule table of the specification, section 4.3: per terrain the
\* entries for Irrigation, Mining, Road and Transforming (Terraform), each
\* <<"Build", turns>>, <<"To", terrain, turns>> or <<"No">>.
RuleTable ==
    [ DeepOcean |-> << <<"No">>, <<"No">>, <<"No">>, <<"No">> >>,
      Desert    |-> << <<"Build", 5>>, <<"Build", 5>>, <<"Build", 2>>,
                       <<"To", "Plains", 24>> >>,
      Forest    |-> << <<"To", "Plains", 5>>, <<"To", "Swamp", 15>>, <<"Build", 4>>,
                       <<"To", "Grassland", 24>> >>,
      Glacier   |-> << <<"No">>, <<"Build", 10>>, <<"Build", 4>>,
                       <<"To", "Tundra", 24>> >>,
      Grassland |-> << <<"Build", 5>>, <<"To", "Forest", 10>>, <<"Build", 2>>,
                       <<"To", "Hills", 24>> >>,
      Hills     |-> << <<"Build", 10>>, <<"Build", 10>>, <<"Build", 4>>,
                       <<"To", "Plains", 24>> >>,
      Jungle    |-> << <<"To", "Grassland", 15>>, <<"To", "Forest", 15>>, <<"Build", 4>>,
                       <<"To", "Plains", 24>> >>,
      Lake      |-> << <<"No">>, <<"No">>, <<"No">>, <<"To", "Swamp", 36>> >>,
      Mountains |-> << <<"No">>, <<"Build", 10>>, <<"Build", 6>>,
                       <<"To", "Hills", 24>> >>,
      Ocean     |-> << <<"No">>, <<"No">>, <<"No">>, <<"To", "Swamp", 36>> >>,
      Plains    |-> << <<"Build", 5>>, <<"To", "Forest", 15>>, <<"Build", 2>>,
                       <<"To", "Grassland", 24>> >>,
      Swamp     |-> << <<"To", "Grassland", 15>>, <<"To", "Forest", 15>>, <<"Build", 4>>,
                       <<"To", "Ocean", 36>> >>,
      Tundra    |-> << <<"Build", 5>>, <<"No">>, <<"Build", 2>>,
                       <<"To", "Desert", 24>> >> ]

\* The table's column of a transform kind, and the flag the kind builds.
RuleColumn(transform) ==
    CASE transform = "Irrigation" -> 1
      [] transform = "Mining" -> 2
      [] transform = "Road" -> 3
      [] transform = "Transforming" -> 4

RuleFlag(transform) ==
    CASE transform = "Irrigation" -> "HAS_IRRIGATION"
      [] transform = "Mining" -> "HAS_MINE"
      [] transform = "Road" -> "HAS_ROAD"

RuleEntry(terrain, transform) == RuleTable[terrain][RuleColumn(transform)]

\* C12: for every terrain and transform kind, what start_transform returns
\* and what a completing tick_transform does are those of the specification's
\* rule-table entry: its turns, its flag, its target terrain, or Impossible.
C12_RuleTableUsed ==
    /\ Started =>
          LET e == RuleEntry(call.pre.terrain, call.transform)
          IN  /\ (e[1] = "No") => (call.result = Impossible)
              /\ (e[1] = "Build") =>
                    (call.result =
                        IF RuleFlag(call.transform) \in call.pre.flags
                        THEN Impossible ELSE Possible(e[2]))
              /\ (e[1] = "To") => (call.result = Possible(e[3]))
    /\ Completed =>
          LET e == RuleEntry(call.pre.terrain, call.pre.transform_status.transform)
          IN  /\ e[1] # "No"
              /\ (e[1] = "Build") =>
                    /\ tile.flags = call.pre.flags
                                        \cup {RuleFlag(call.pre.transform_status.transform)}
                    /\ tile.terrain = call.pre.terrain
              /\ (e[1] = "To") => (tile.terrain = e[2])

\* Mining has turned a Forest into a Swamp.
C12_Witness ==
    /\ Completed
    /\ call.pre.terrain = "Forest"
    /\ call.pre.transform_status.transform = "Mining"
    /\ tile.terrain = "Swamp"

(***************************************************************************)
(* World and TileRef (world.rs): grid addressing.                          *)
(***************************************************************************)
\* The largest width and height of a World, and the largest index that
\* tile_at and tile_at_mut are called with.
MaxSide == 3

MaxCoord == 7

\* Some(TileRef { x, y, world }) and Some(TileRefMut { x, y, world }).
SomeTile(x, y, self) == [some |-> TRUE, x |-> x, y |-> y, world |-> self]

\* tile_at whose x axis is reduced modulo the height.
tile_at_x_by_height(self, x, y) ==
    IF ~self.wrapping_x /\ x >= self.width THEN NoTile
    ELSE IF ~self.wrapping_y /\ y >= self.height THEN NoTile
    ELSE SomeTile(IF self.wrapping_x /\ x >= self.width THEN x % self.height ELSE x,
                  IF self.wrapping_y /\ y >= self.height THEN y % self.height ELSE y,
                  self)

\* tile_at that tests x > width and y > height.
tile_at_off_by_one(self, x, y) ==
    IF ~self.wrapping_x /\ x > self.width THEN NoTile
    ELSE IF ~self.wrapping_y /\ y > self.height THEN NoTile
    ELSE SomeTile(IF self.wrapping_x /\ x > self.width THEN x % self.width ELSE x,
                  IF self.wrapping_y /\ y > self.height THEN y % self.height ELSE y,
                  self)

\* World::tile_at: x is resolved first, then y; either may return None.
tile_at(self, x, y) ==
    IF ~self.wrapping_x /\ x >= self.width THEN NoTile
    ELSE IF ~self.wrapping_y /\ y >= self.height THEN NoTile
    ELSE SomeTile(IF self.wrapping_x /\ x >= self.width THEN x % self.width ELSE x,
                  IF self.wrapping_y /\ y >= self.height THEN y % self.height ELSE y,
                  self)

\* World::tile_at_mut: the same resolution, written out a second time.
tile_at_mut(self, x, y) ==
    IF ~self.wrapping_x /\ x >= self.width THEN NoTile
    ELSE IF ~self.wrapping_y /\ y >= self.height THEN NoTile
    ELSE SomeTile(IF self.wrapping_x /\ x >= self.width THEN x % self.width ELSE x,
                  IF self.wrapping_y /\ y >= self.height THEN y % self.height ELSE y,
                  self)

\* TileRef::north.
north(self) ==
    IF self.y = 0 /\ ~self.world.wrapping_y THEN NoTile
    ELSE tile_at(self.world, self.x,
                 IF self.y = 0 THEN self.world.height - 1 ELSE self.y - 1)

\* TileRef::west.
west(self) ==
    IF self.x = 0 /\ ~self.world.wrapping_x THEN NoTile
    ELSE tile_at(self.world,
                 IF self.x = 0 THEN self.world.width - 1 ELSE self.x - 1, self.y)

\* east that consults wrapping_y at the last column.
east_by_wrapping_y(self) ==
    IF self.x = self.world.width - 1 /\ ~self.world.wrapping_y THEN NoTile
    ELSE tile_at(self.world,
                 IF self.x = self.world.width - 1 THEN 0 ELSE self.x + 1, self.y)

\* TileRef::east.
east(self) ==
    IF self.x = self.world.width - 1 /\ ~self.world.wrapping_x THEN NoTile
    ELSE tile_at(self.world,
                 IF self.x = self.world.width - 1 THEN 0 ELSE self.x + 1, self.y)

\* TileRef::south.
south(self) ==
    IF self.y = self.world.height - 1 /\ ~self.world.wrapping_y THEN NoTile
    ELSE tile_at(self.world, self.x,
                 IF self.y = self.world.height - 1 THEN 0 ELSE self.y + 1)

\* Option::and_then applied to a lookup result; stepped is the closure
\* applied to the tile found, and is only looked at when there is one.
and_then(option, stepped) == IF option.some THEN stepped ELSE NoTile

\* north_east that steps west.
north_east_to_west(self) == and_then(north(self), west(north(self)))

\* TileRef::north_east.
north_east(self) == and_then(north(self), east(north(self)))

\* TileRef::south_east.
south_east(self) == and_then(south(self), east(south(self)))

\* TileRef::south_west.
south_west(self) == and_then(south(self), west(south(self)))

\* TileRef::north_west.
north_west(self) == and_then(north(self), west(north(self)))

\* The neighbour lookups by name.
Neighbours ==
    { "north", "west", "east", "south",
      "north_east", "south_east", "south_west", "north_west" }

neighbour(name, self) ==
    CASE name = "north" -> north(self)
      [] name = "west" -> west(self)
      [] name = "east" -> east(self)
      [] name = "south" -> south(self)
      [] name = "north_east" -> north_east(self)
      [] name = "south_east" -> south_east(self)
      [] name = "south_west" -> south_west(self)
      [] name = "north_west" -> north_west(self)

\* A World as generate returns it: at least one column and one row.
WorldInit ==
    /\ world \in [width : 1..MaxSide, height : 1..MaxSide,
                  wrapping_x : BOOLEAN, wrapping_y : BOOLEAN]
    /\ tile_ref = NoTile
    /\ lookup = [op |-> "new"]
    /\ TileIdle
    /\ GenIdle
    /\ PerlinIdle
    /\ ResearchIdle

\* A call of world.tile_at(x, y).
TileAt ==
    /\ \E x \in 0..MaxCoord, y \in 0..MaxCoord :
          /\ tile_ref' = tile_at(world, x, y)
          /\ lookup' = [op |-> "tile_at", x |-> x, y |-> y]
    /\ UNCHANGED << world, tile_vars, gen, perlin, research >>

\* A call of world.tile_at_mut(x, y), its result turned into_immutable.
TileAtMut ==
    /\ \E x \in 0..MaxCoord, y \in 0..MaxCoord :
          /\ tile_ref' = tile_at_mut(world, x, y)
          /\ lookup' = [op |-> "tile_at_mut", x |-> x, y |-> y]
    /\ UNCHANGED << world, tile_vars, gen, perlin, research >>

\* A call of one of the eight neighbour lookups on the reference held.
Neighbour ==
    /\ tile_ref.some
    /\ \E name \in Neighbours :
          /\ tile_ref' = neighbour(name, tile_ref)
          /\ lookup' = [op |-> name, x |-> tile_ref.x, y |-> tile_ref.y]
    /\ UNCHANGED << world, tile_vars, gen, perlin, research >>

WorldNext ==
    \/ TileAt
    \/ TileAtMut
    \/ Neighbour

SpecWorld == WorldInit /\ [][WorldNext]_vars

(***************************************************************************)
(* Properties of the grid addressing.                                      *)
(***************************************************************************)
\* One axis as the specification resolves it: an index on a wrapping axis is
\* taken modulo the length, an index past a non-wrapping axis is absent (-1).
Resolved(i, length, wraps) ==
    IF wraps THEN i % length ELSE IF i >= length THEN -1 ELSE i

\* One step back or forth on an axis, absent (-1) past a non-wrapping edge.
StepBack(i, length, wraps) ==
    IF i > 0 THEN i - 1 ELSE IF wraps THEN length - 1 ELSE -1

StepForth(i, length, wraps) ==
    IF i < length - 1 THEN i + 1 ELSE IF wraps THEN 0 ELSE -1

\* The reference held is the cell (x, y), or none if either is absent.
RefIs(x, y) ==
    IF x = -1 \/ y = -1 THEN ~tile_ref.some
    ELSE tile_ref.some /\ tile_ref.x = x /\ tile_ref.y = y

\* C13: tile_at(x, y) and tile_at_mut(x, y) resolve each axis on its own, by
\* the index modulo the length on a wrapping axis and to no tile for an index
\* >= the length on a non-wrapping one; tile_at(width, y) is the cell (0, y)
\* when x wraps and absent when it does not.
C13_AxesResolved ==
    (lookup.op \in {"tile_at", "tile_at_mut"}) =>
        /\ RefIs(Resolved(lookup.x, world.width, world.wrapping_x),
                 Resolved(lookup.y, world.height, world.wrapping_y))
        /\ (lookup.x = world.width /\ lookup.y < world.height) =>
              IF world.wrapping_x
              THEN tile_ref = tile_at(world, 0, lookup.y) /\ tile_ref.x = 0
              ELSE ~tile_ref.some

\* tile_at(2 * width + 1, y) on a world three wide whose x axis wraps and
\* whose height differs from its width.
C13_Witness ==
    /\ lookup.op = "tile_at"
    /\ world.wrapping_x
    /\ world.width = 3
    /\ world.height = 2
    /\ lookup.x = 7
    /\ tile_ref.some
    /\ tile_ref.x = 1

\* C14: north, south, east and west return the cell one step away on their
\* axis, the cell on the opposite edge at a wrapping boundary and no tile at
\* a non-wrapping one, and keep the coordinate of the other axis.
C14_OrthogonalSteps ==
    /\ (lookup.op = "north") =>
          RefIs(IF StepBack(lookup.y, world.height, world.wrapping_y) = -1
                THEN -1 ELSE lookup.x,
                StepBack(lookup.y, world.height, world.wrapping_y))
    /\ (lookup.op = "south") =>
          RefIs(IF StepForth(lookup.y, world.height, world.wrapping_y) = -1
                THEN -1 ELSE lookup.x,
                StepForth(lookup.y, world.height, world.wrapping_y))
    /\ (lookup.op = "west") =>
          RefIs(StepBack(lookup.x, world.width, world.wrapping_x),
                IF StepBack(lookup.x, world.width, world.wrapping_x) = -1
                THEN -1 ELSE lookup.y)
    /\ (lookup.op = "east") =>
          RefIs(StepForth(lookup.x, world.width, world.wrapping_x),
                IF StepForth(lookup.x, world.width, world.wrapping_x) = -1
                THEN -1 ELSE lookup.y)

\* east from the last column of a world whose x axis wraps and whose y axis
\* does not.
C14_Witness ==
    /\ lookup.op = "east"
    /\ world.wrapping_x
    /\ ~world.wrapping_y
    /\ world.width = 3
    /\ lookup.x = 2
    /\ tile_ref.some
    /\ tile_ref.x = 0
    /\ tile_ref.y = lookup.y

\* C15: each diagonal neighbour is its vertical step followed by its
\* horizontal step, and is no tile whenever one of the two steps is.
C15_DiagonalsCompose ==
    LET up == StepBack(lookup.y, world.height, world.wrapping_y)
        down == StepForth(lookup.y, world.height, world.wrapping_y)
        left == StepBack(lookup.x, world.width, world.wrapping_x)
        right == StepForth(lookup.x, world.width, world.wrapping_x)
    IN  /\ (lookup.op = "north_east") => RefIs(right, up)
        /\ (lookup.op = "south_east") => RefIs(right, down)
        /\ (lookup.op = "south_west") => RefIs(left, down)
        /\ (lookup.op = "north_west") => RefIs(left, up)

\* north_east from the top right corner of a world that wraps on x only: the
\* cell (0, y) exists east of it, yet there is no north_east.
C15_Witness ==
    /\ lookup.op = "north_east"
    /\ world.wrapping_x
    /\ ~world.wrapping_y
    /\ lookup.x = world.width - 1
    /\ lookup.y = 0
    /\ world.height > 1
    /\ ~tile_ref.some

\* C16: every reference obtained from tile_at, tile_at_mut and the neighbour
\* lookups has x < width and y < height, so the unchecked indexing of the grid
\* behind it stays in range.
C16_RefInRange ==
    tile_ref.some =>
        /\ tile_ref.x < world.width
        /\ tile_ref.y < world.height
        /\ tile_ref.world = world

\* A diagonal step across both wrapping edges, from the last cell to (0, 0).
C16_Witness ==
    /\ lookup.op = "south_east"
    /\ lookup.x = world.width - 1
    /\ lookup.y = world.height - 1
    /\ world.width = 3
    /\ tile_ref.some
    /\ tile_ref.x = 0
    /\ tile_ref.y = 0

(***************************************************************************)
(* generate of generator.rs: island injection and consolidation.           *)
(***************************************************************************)
\* The largest width and height generate is called with, the largest number
\* of cells of its grid, and the largest value of the summed noise.
MaxGenSide == 4

MaxGenCells == 4

MaxLevel == 2

\* The values of the summed noise of the height map, and those of the
\* feature map in hundredths (the feature map is not normalized).
HeightLevels == 0..MaxLevel

FeatureLevels == { 20, 35, 45, 60 }

\* water_percentage in hundredths: fractions in [0, 1], and two outside.
WaterPercentages == { -50, 0, 50, 75, 100, 150 }

\* Parameters, with the fields generate only copies held at their defaults.
GenParameters ==
    { params \in [width : 0..MaxGenSide, height : 0..MaxGenSide,
                  water_percentage : WaterPercentages,
                  wrapping_x : {TRUE}, wrapping_y : {FALSE}] :
          params.width * params.height <= MaxGenCells }

\* vec![vec![v; width]; height]: rows indexed by y, columns by x.
Rows(params) == 0..(params.height - 1)

Columns(params) == 0..(params.width - 1)

Maps(params, values) == [Rows(params) -> [Columns(params) -> values]]

\* A height is a fraction <<numerator, denominator>>; 0.0 / 0.0 is NaN, a
\* fraction with denominator 0, and every comparison with NaN is false.
lt(value, hundredths) ==
    value[2] # 0 /\ 100 * value[1] < hundredths * value[2]

gt(value, hundredths) ==
    value[2] # 0 /\ 100 * value[1] > hundredths * value[2]

\* Terrain::is_water.
is_water(terrain) == terrain \in {"DeepOcean", "Ocean", "Lake"}

\* The minimum and maximum of a map of numbers (lines 55-62); a map without
\* cells leaves them at INFINITY and NEG_INFINITY, which are never used.
min_height(params, height_map) ==
    CHOOSE m \in { height_map[y][x] : y \in Rows(params), x \in Columns(params) } :
        \A y \in Rows(params), x \in Columns(params) : m <= height_map[y][x]

max_height(params, height_map) ==
    CHOOSE m \in { height_map[y][x] : y \in Rows(params), x \in Columns(params) } :
        \A y \in Rows(params), x \in Columns(params) : m >= height_map[y][x]

\* Lines 63-67: (height - min_height) / (max_height - min_height) per cell.
normalize(params, height_map) ==
    [y \in Rows(params) |->
        [x \in Columns(params) |->
            << height_map[y][x] - min_height(params, height_map),
               max_height(params, height_map) - min_height(params, height_map) >>]]

\* Line 72: ((1.0 - water_percentage) * total_count as f32).round() as usize;
\* round is half away from zero and the cast of a negative number gives 0.
island_target(params) ==
    LET total_count == params.width * params.height
        hundredths == (100 - params.water_percentage) * total_count
    IN  IF hundredths <= 0 THEN 0 ELSE (2 * hundredths + 100) \div 200

\* Lines 91-109: the terrain of a height.
terrain_type(feature_value) ==
    IF lt(feature_value, 10) THEN "Ocean"
    ELSE IF lt(feature_value, 20) THEN "Plains"
    ELSE IF lt(feature_value, 30) THEN "Grassland"
    ELSE IF lt(feature_value, 40) THEN "Hills"
    ELSE IF lt(feature_value, 50) THEN "Forest"
    ELSE IF lt(feature_value, 60) THEN "Swamp"
    ELSE IF lt(feature_value, 70) THEN "Jungle"
    ELSE IF lt(feature_value, 80) THEN "Mountains"
    ELSE "Desert"

\* Lines 83-112: the grid of tiles, by terrain.
add_terrain_types(params, height_map) ==
    [y \in Rows(params) |->
        [x \in Columns(params) |-> terrain_type(height_map[y][x])]]

\* Lines 123-151: the cells on the queue are popped, last first, and each
\* pushes its unvisited water neighbours to the left, right, top and bottom.
RECURSIVE flood(_, _, _)
flood(params, grid, fill) ==
    IF fill.queue = << >> THEN fill
    ELSE LET last == Len(fill.queue)
             x == fill.queue[last][1]
             y == fill.queue[last][2]
             open(cell) ==
                 /\ cell \notin fill.visited
                 /\ is_water(grid[cell[2]][cell[1]])
             pushed ==
                 (IF x > 0 /\ open(<< x - 1, y >>) THEN << << x - 1, y >> >> ELSE << >>)
                 \o (IF x < params.width - 1 /\ open(<< x + 1, y >>)
                     THEN << << x + 1, y >> >> ELSE << >>)
                 \o (IF y > 0 /\ open(<< x, y - 1 >>) THEN << << x, y - 1 >> >> ELSE << >>)
                 \o (IF y < params.height - 1 /\ open(<< x, y + 1 >>)
                     THEN << << x, y + 1 >> >> ELSE << >>)
         IN  flood(params, grid,
                   [visited |-> fill.visited \cup { pushed[i] : i \in 1..Len(pushed) },
                    queue |-> SubSeq(fill.queue, 1, last - 1) \o pushed,
                    island_size |-> fill.island_size + 1,
                    ocean_size |-> fill.ocean_size + Len(pushed)])

flood_start_uncounted(x, y, visited) ==
    [visited |-> visited \cup {<< x, y >>}, queue |-> << << x, y >> >>,
     island_size |-> 0, ocean_size |-> 0]

\* Lines 119-122: the flood that starts at the cell (x, y).
flood_start(x, y, visited) ==
    [visited |-> visited \cup {<< x, y >>}, queue |-> << << x, y >> >>,
     island_size |-> 0, ocean_size |-> 1]

\* Lines 115-163, from the k-th cell in row order on: a flood is started at
\* every unvisited water cell, and when it ends with island_size < ocean_size
\* every cell visited so far becomes Ocean.
RECURSIVE flood_fill(_, _, _)
flood_fill(params, k, state) ==
    IF k >= params.width * params.height THEN state
    ELSE LET x == k % params.width
             y == k \div params.width
         IN  IF << x, y >> \notin state.visited /\ is_water(state.world[y][x])
             THEN LET fill == flood(params, state.world,
                                    flood_start(x, y, state.visited))
                      filled ==
                          IF fill.island_size < fill.ocean_size
                          THEN [r \in Rows(params) |->
                                  [c \in Columns(params) |->
                                      IF << c, r >> \in fill.visited THEN "Ocean"
                                      ELSE state.world[r][c]]]
                          ELSE state.world
                  IN  flood_fill(params, k + 1,
                                 [world |-> filled,
                                  visited |-> fill.visited,
                                  components |->
                                      Append(state.components,
                                             << fill.island_size, fill.ocean_size >>)])
             ELSE flood_fill(params, k + 1, state)

\* Lines 203-216: whether a neighbour of (x, y) in the grid is water.
adjacent_water(params, grid, x, y) ==
    \/ x > 0 /\ is_water(grid[y][x - 1])
    \/ x < params.width - 1 /\ is_water(grid[y][x + 1])
    \/ y > 0 /\ is_water(grid[y - 1][x])
    \/ y < params.height - 1 /\ is_water(grid[y + 1][x])

\* Lines 188-199: the terrains and feature values that turn a cell into
\* Forest.
becomes_forest(terrain, feature_value) ==
    \/ terrain \in {"Ocean", "Swamp"} /\ feature_value > 30
    \/ terrain \in {"Desert", "Plains", "Grassland"} /\ feature_value > 50
    \/ terrain \in {"Hills", "Jungle", "Mountains"} /\ feature_value > 40

\* Lines 183-222, the k-th cell in row order: the terrain and the feature
\* value are read at [y][x]; Forest is written at [x][y], which panics when
\* x is no row or y no column of the grid; Swamp is written at [y][x].
add_feature(params, feature_map, k, grid) ==
    LET x == k % params.width
        y == k \div params.width
        terrain == grid[y][x]
        feature_value == feature_map[y][x]
    IN  CASE becomes_forest(terrain, feature_value) ->
                IF x \in Rows(params) /\ y \in Columns(params)
                THEN [world |-> [grid EXCEPT ![x][y] = "Forest"], panic |-> "none"]
                ELSE [world |-> grid, panic |-> "index out of bounds"]
          [] /\ terrain = "Forest"
             /\ feature_value > 50
             /\ adjacent_water(params, grid, x, y) ->
                [world |-> [grid EXCEPT ![y][x] = "Swamp"], panic |-> "none"]
          [] OTHER -> [world |-> grid, panic |-> "none"]

\* generate has been called with params: the random generator and the noise
\* exist (lines 38-39), nothing is allocated yet. A second call (run 2) keeps
\* the noise of its seed and the World the first call returned.
gen_entry(params, run, noise_height, noise_feature, previous) ==
    [pc |-> "entry", params |-> params, run |-> run,
     noise_height |-> noise_height, noise_feature |-> noise_feature,
     height_map |-> << >>, island_count |-> 0, world |-> << >>,
     components |-> << >>, carved |-> {}, cell |-> 0, before |-> << >>,
     panic |-> "none", previous |-> previous]

GenInit ==
    /\ gen \in { gen_entry(params, 1, << >>, << >>, << >>) : params \in GenParameters }
    /\ TileIdle
    /\ WorldIdle
    /\ PerlinIdle
    /\ ResearchIdle

\* Lines 41-52: the height map is the summed noise of the seed.
GenHeightMap ==
    /\ gen.pc = "entry"
    /\ \E field \in Maps(gen.params, HeightLevels) :
          /\ gen.run = 2 => field = gen.noise_height
          /\ gen' = [gen EXCEPT !.pc = "normalize",
                                !.noise_height = field,
                                !.height_map = field]
    /\ UNCHANGED << tile_vars, world_vars, perlin, research >>

\* Lines 54-67.
GenNormalize ==
    /\ gen.pc = "normalize"
    /\ gen' = [gen EXCEPT !.pc = "islands",
                          !.height_map = normalize(gen.params, gen.height_map)]
    /\ UNCHANGED << tile_vars, world_vars, perlin, research >>

carve_nothing(height_map, x, y) == height_map

\* Line 77: height_map[y][x] = 0.0.
carve(height_map, x, y) == [height_map EXCEPT ![y][x] = << 0, 1 >>]

\* Lines 73-80, one iteration: a random cell is drawn and, if its height is
\* in (0.4, 0.8), set to 0.0 and counted; carved keeps the cells counted.
GenIsland ==
    /\ gen.pc = "islands"
    /\ gen.island_count < island_target(gen.params)
    /\ \E x \in Columns(gen.params), y \in Rows(gen.params) :
          gen' = IF gt(gen.height_map[y][x], 40) /\ lt(gen.height_map[y][x], 80)
                 THEN [gen EXCEPT !.height_map = carve(@, x, y),
                                  !.island_count = @ + 1,
                                  !.carved = @ \cup {<< x, y >>}]
                 ELSE gen
    /\ UNCHANGED << tile_vars, world_vars, perlin, research >>

\* Lines 73, 82-112: the loop ends and every cell gets its terrain.
GenTerrain ==
    /\ gen.pc = "islands"
    /\ gen.island_count >= island_target(gen.params)
    /\ gen' = [gen EXCEPT !.pc = "flood_fill",
                          !.world = add_terrain_types(gen.params, gen.height_map)]
    /\ UNCHANGED << tile_vars, world_vars, perlin, research >>

\* Lines 114-163.
GenFloodFill ==
    /\ gen.pc = "flood_fill"
    /\ LET filled == flood_fill(gen.params, 0,
                                [world |-> gen.world, visited |-> {},
                                 components |-> << >>])
       IN  gen' = [gen EXCEPT !.pc = "features",
                              !.world = filled.world,
                              !.components = filled.components]
    /\ UNCHANGED << tile_vars, world_vars, perlin, research >>

\* Lines 165-179: the feature map is the summed noise of the seed.
GenFeatures ==
    /\ gen.pc = "features"
    /\ \E field \in Maps(gen.params, FeatureLevels) :
          /\ gen.run = 2 => field = gen.noise_feature
          /\ gen' = [gen EXCEPT !.pc = "overlay",
                                !.noise_feature = field,
                                !.cell = 0]
    /\ UNCHANGED << tile_vars, world_vars, perlin, research >>

\* Lines 181-224, one cell of the overlay; before is the grid the cell
\* found.
GenOverlay ==
    /\ gen.pc = "overlay"
    /\ gen.cell < gen.params.width * gen.params.height
    /\ LET overlaid == add_feature(gen.params, gen.noise_feature, gen.cell, gen.world)
       IN  gen' = IF overlaid.panic = "none"
                  THEN [gen EXCEPT !.world = overlaid.world,
                                   !.before = gen.world,
                                   !.cell = @ + 1]
                  ELSE [gen EXCEPT !.pc = "panicked",
                                   !.panic = overlaid.panic]
    /\ UNCHANGED << tile_vars, world_vars, perlin, research >>

\* Lines 226-234: the overlay is over and the World is returned.
GenReturn ==
    /\ gen.pc = "overlay"
    /\ gen.cell >= gen.params.width * gen.params.height
    /\ gen' = [gen EXCEPT !.pc = "done"]
    /\ UNCHANGED << tile_vars, world_vars, perlin, research >>

\* generate is called a second time with the same Parameters.
GenAgain ==
    /\ gen.pc = "done"
    /\ gen.run = 1
    /\ gen' = gen_entry(gen.params, 2, gen.noise_height, gen.noise_feature, gen.world)
    /\ UNCHANGED << tile_vars, world_vars, perlin, research >>

GenNext ==
    \/ GenHeightMap
    \/ GenNormalize
    \/ GenIsland
    \/ GenTerrain
    \/ GenFloodFill
    \/ GenFeatures
    \/ GenOverlay
    \/ GenReturn
    \/ GenAgain

SpecGen == GenInit /\ [][GenNext]_vars

\* The Parameters of the running call are well formed: both sides are at
\* least 1 and water_percentage lies in [0, 1].
ValidParameters ==
    /\ gen.params.width >= 1
    /\ gen.params.height >= 1
    /\ gen.params.water_percentage \in 0..100

\* The World returned has height rows of width tiles, each with a terrain.
GridShaped ==
    /\ DOMAIN gen.world = Rows(gen.params)
    /\ \A y \in Rows(gen.params) :
          /\ DOMAIN gen.world[y] = Columns(gen.params)
          /\ \A x \in Columns(gen.params) : gen.world[y][x] \in Terrain

\* C17: for valid Parameters, square or not, generate never makes an
\* out-of-range grid access, and the World it returns has exactly height
\* rows of width tiles, each with a terrain assigned.
C17_GenerateCompletesInRange ==
    (gen.pc # "idle" /\ ValidParameters) =>
        /\ gen.pc # "panicked"
        /\ gen.pc = "done" => GridShaped

\* C18: with a malformed configuration (a zero side, or water_percentage
\* outside [0, 1]) generate never goes beyond its entry: no height field is
\* synthesised and nothing fails or loops later in the algorithm.
C18_MalformedRejectedAtEntry ==
    (gen.pc # "idle" /\ ~ValidParameters) => gen.pc = "entry"

\* C19: a second run of generate with the same Parameters, seed included,
\* returns the same terrain grid as the first.
C19_SameParametersSameGrid ==
    (gen.pc = "done" /\ gen.run = 2) => gen.world = gen.previous

(***************************************************************************)
(* generate of generator_perlin_simple.rs: water threshold search.         *)
(* water_percentage and water_threshold are counted in steps of 0.0001,    *)
(* the amount the search moves the threshold by; a normalised height is a  *)
(* pair << numerator, denominator >>, NaN when the denominator is 0.       *)
(***************************************************************************)
MaxAdjust == 3

\* Line 98: 1.0 in steps of 0.0001.
One == 10000

\* Line 96: 0.001 in steps of 0.0001.
Tolerance == 10

\* Line 51: 1.0 in the steps of 0.5 the noise values are counted in.
NoiseOne == 2

\* Lines 54-57: the noise values, from -1.0 to 1.0.
PerlinLevels == -NoiseOne..NoiseOne
PerlinWaterPercentages == { 500, 2500, 2505, 2550, 5000, 7500, 9500, 10000 }
PerlinThresholds == { 0, 2000, 4999 }
PerlinParameters ==
    { params \in [width : 0..MaxGenSide, height : 0..MaxGenSide,
                  water_percentage : PerlinWaterPercentages] :
          params.width * params.height <= MaxGenCells }

\* Lines 40-44 and 49: both vectors have height rows of width cells, and
\* lines 56-132 index them with [x][y].
in_range(params, x, y) == x \in Rows(params) /\ y \in Columns(params)

\* The cells (x, y) the loops of lines 52-53 visit.
Cells(params) == Columns(params) \X Rows(params)

\* Lines 50-62: max_height starts at 0.0, min_height at 1.0.
perlin_max_height(params, heights) ==
    LET values == { heights[c[1]][c[2]] : c \in Cells(params) } \cup {0}
    IN  CHOOSE m \in values : \A v \in values : v <= m

perlin_min_height(params, heights) ==
    LET values == { heights[c[1]][c[2]] : c \in Cells(params) } \cup {NoiseOne}
    IN  CHOOSE m \in values : \A v \in values : m <= v

\* Lines 67-71.
perlin_normalize(params, heights) ==
    [r \in Rows(params) |->
        [c \in Columns(params) |->
            << heights[r][c] - perlin_min_height(params, heights),
               perlin_max_height(params, heights)
                   - perlin_min_height(params, heights) >>]]

\* Lines 79, 105: heights[x][y] < water_threshold; false for NaN.
below(value, water_threshold) ==
    value[2] # 0 /\ One * value[1] < water_threshold * value[2]

\* Lines 77-85 and 103-111: the cells below the threshold become Ocean, the
\* others stay what they are.
place_water(params, heights, grid, water_threshold) ==
    [r \in Rows(params) |->
        [c \in Columns(params) |->
            IF below(heights[r][c], water_threshold) THEN "Ocean" ELSE grid[r][c]]]

\* Lines 77-85 and 102-111: water_count.
count_water(params, heights, water_threshold) ==
    Cardinality({ c \in Cells(params) : below(heights[c[1]][c[2]], water_threshold) })

\* Lines 92-94 and 112-114: diff times total times 10000; the quotient of
\* an empty grid is NaN, and so is diff.
diff(params, water_count) ==
    LET total == params.width * params.height
        delta == One * water_count - params.water_percentage * total
    IN  IF delta < 0 THEN -delta ELSE delta

\* Lines 91 and 96: the search goes on while diff.abs() > 0.001.
keep_adjusting_loosely(params, water_count) ==
    /\ params.width * params.height # 0
    /\ diff(params, water_count) > 10 * Tolerance * params.width * params.height

keep_adjusting(params, water_count) ==
    /\ params.width * params.height # 0
    /\ diff(params, water_count) > Tolerance * params.width * params.height

\* Lines 120-136: the cells still Grassland get the terrain of their height.
band(value) ==
    CASE below(value, 3000) -> "Swamp"
      [] ~below(value, 3000) /\ below(value, 4000) -> "Forest"
      [] ~below(value, 4000) /\ below(value, 6000) -> "Hills"
      [] ~below(value, 6000) /\ below(value, 8000) -> "Mountains"
      [] OTHER -> "Glacier"

add_bands(params, heights, grid) ==
    [r \in Rows(params) |->
        [c \in Columns(params) |->
            IF grid[r][c] = "Grassland" THEN band(heights[r][c]) ELSE grid[r][c]]]

\* Lines 37-44: generate has been called, the world is all Grassland.
perlin_entry(params) ==
    [pc |-> "entry", params |-> params, noise |-> << >>,
     heights |-> [r \in Rows(params) |-> [c \in Columns(params) |-> 0]],
     world |-> [r \in Rows(params) |-> [c \in Columns(params) |-> "Grassland"]],
     water_threshold |-> 0, water_count |-> 0, adjustments |-> 0,
     panic |-> "none"]

PerlinInit ==
    /\ perlin \in { perlin_entry(params) : params \in PerlinParameters }
    /\ TileIdle
    /\ WorldIdle
    /\ GenIdle
    /\ ResearchIdle

\* Lines 48-62: the heights are written at [x][y], which panics as soon as
\* a cell of the loops is out of the range of the vector.
PerlinHeightMap ==
    /\ perlin.pc = "entry"
    /\ IF \A c \in Cells(perlin.params) : in_range(perlin.params, c[1], c[2])
       THEN \E field \in Maps(perlin.params, PerlinLevels) :
               perlin' = [perlin EXCEPT !.pc = "normalize", !.noise = field,
                                        !.heights = field]
       ELSE perlin' = [perlin EXCEPT !.pc = "panicked",
                                     !.panic = "index out of bounds"]
    /\ UNCHANGED << tile_vars, world_vars, gen, research >>

\* Lines 64-71.
PerlinNormalize ==
    /\ perlin.pc = "normalize"
    /\ perlin' = [perlin EXCEPT
                     !.pc = "water",
                     !.heights = perlin_normalize(perlin.params, perlin.heights)]
    /\ UNCHANGED << tile_vars, world_vars, gen, research >>

\* Lines 73-85: the threshold is drawn from 0.0..1.0 - water_percentage,
\* which panics when the range is empty.
PerlinPlaceWater ==
    /\ perlin.pc = "water"
    /\ IF One - perlin.params.water_percentage <= 0
       THEN perlin' = [perlin EXCEPT !.pc = "panicked",
                                     !.panic = "cannot sample empty range"]
       ELSE \E water_threshold \in PerlinThresholds :
               /\ water_threshold < One - perlin.params.water_percentage
               /\ perlin' = [perlin EXCEPT
                     !.pc = "adjust",
                     !.water_threshold = water_threshold,
                     !.water_count =
                         count_water(perlin.params, perlin.heights, water_threshold),
                     !.world = place_water(perlin.params, perlin.heights,
                                           perlin.world, water_threshold)]
    /\ UNCHANGED << tile_vars, world_vars, gen, research >>

\* Lines 96-115, one iteration of the search.
PerlinAdjust ==
    /\ perlin.pc = "adjust"
    /\ keep_adjusting(perlin.params, perlin.water_count)
    /\ perlin.adjustments < MaxAdjust
    /\ LET water_threshold ==
               IF diff(perlin.params, perlin.water_count) > 0
               THEN perlin.water_threshold + 1
               ELSE perlin.water_threshold - 1
       IN  perlin' = [perlin EXCEPT
                         !.water_threshold = water_threshold,
                         !.water_count =
                             count_water(perlin.params, perlin.heights, water_threshold),
                         !.world = place_water(perlin.params, perlin.heights,
                                               perlin.world, water_threshold),
                         !.adjustments = @ + 1]
    /\ UNCHANGED << tile_vars, world_vars, gen, research >>

\* Lines 91, 96 and 117-146: the search is over, the other terrains are
\* assigned and the World is returned.
PerlinBand ==
    /\ perlin.pc = "adjust"
    /\ ~keep_adjusting(perlin.params, perlin.water_count)
    /\ perlin' = [perlin EXCEPT
                     !.pc = "done",
                     !.world = add_bands(perlin.params, perlin.heights, perlin.world)]
    /\ UNCHANGED << tile_vars, world_vars, gen, research >>

PerlinNext ==
    \/ PerlinHeightMap
    \/ PerlinNormalize
    \/ PerlinPlaceWater
    \/ PerlinAdjust
    \/ PerlinBand

SpecPerlin == PerlinInit /\ [][PerlinNext]_vars

\* The Ocean cells of the grid of Strategy B.
OceanCells ==
    Cardinality({ c \in Cells(perlin.params) : perlin.world[c[1]][c[2]] = "Ocean" })

\* generate of Strategy B has returned a grid with cells, for a
\* water_percentage in [0.05, 0.95].
PerlinReturned ==
    /\ perlin.pc = "done"
    /\ perlin.params.width * perlin.params.height >= 1
    /\ perlin.params.water_percentage >= 500
    /\ perlin.params.water_percentage <= 9500

\* C20: when generate of Strategy B returns, for a water_percentage in
\* [0.05, 0.95], the Ocean cells of the returned grid divided by
\* width * height are within 0.001 of water_percentage.
C20_WaterFractionWithinTolerance ==
    PerlinReturned =>
        LET total == perlin.params.width * perlin.params.height
            delta == One * OceanCells - perlin.params.water_percentage * total
        IN  /\ delta <= Tolerance * total
            /\ -delta <= Tolerance * total

\* The search has moved the threshold and ended on a fraction that is not
\* water_percentage itself.
C20_Witness ==
    /\ PerlinReturned
    /\ perlin.adjustments >= 1
    /\ One * OceanCells # perlin.params.water_percentage
                              * perlin.params.width * perlin.params.height

\* The search of Strategy B is in an iteration that no later iteration can
\* leave: diff exceeds the tolerance and either the fraction is already
\* above water_percentage, while the threshold only rises and the count with
\* it, or every cell whose height is a number is counted already.
SearchHopeless ==
    /\ perlin.pc = "adjust"
    /\ keep_adjusting(perlin.params, perlin.water_count)
    /\ \/ One * perlin.water_count
              > perlin.params.water_percentage
                    * perlin.params.width * perlin.params.height
       \/ perlin.water_count
              = Cardinality({ c \in Cells(perlin.params) :
                                  perlin.heights[c[1]][c[2]][2] # 0 })

\* C21: the threshold search of Strategy B stops after a bounded number of
\* iterations for every Parameters and initial threshold, so it is never
\* in an iteration from which the loop condition can no longer become false.
C21_SearchBounded == ~SearchHopeless

\* Line 76: the cells a sample of the island loop would carve.
eligible(params, height_map) ==
    { c \in Cells(params) :
          gt(height_map[c[2]][c[1]], 40) /\ lt(height_map[c[2]][c[1]], 80) }

\* The island loop of Strategy A runs on valid Parameters below its target
\* with no cell left in the band (0.4, 0.8): whatever cell is sampled, the
\* iteration changes nothing.
IslandsHopeless ==
    /\ gen.pc = "islands"
    /\ ValidParameters
    /\ gen.island_count < island_target(gen.params)
    /\ eligible(gen.params, gen.height_map) = {}

\* C22: for valid Parameters and every normalised height field the island
\* loop of Strategy A meets its target under fair sampling, ending with
\* island_count = island_target; so while it is below the target there is
\* always a cell left that a sample can carve.
C22_IslandTargetMet == ~IslandsHopeless

\* The values of a field of rows of cells.
values_of(field) ==
    UNION { { field[r][c] : c \in DOMAIN field[r] } : r \in DOMAIN field }

\* The normalised heights are what min-max normalisation makes of the noise
\* field: exactly 0 where the field has its minimum, exactly 1 where it has
\* its maximum, and numbers from 0 to 1 elsewhere.
min_max_normalized(field, heights) ==
    \A r \in DOMAIN field : \A c \in DOMAIN field[r] :
        /\ heights[r][c][2] > 0
        /\ heights[r][c][1] >= 0
        /\ heights[r][c][1] <= heights[r][c][2]
        /\ (\A v \in values_of(field) : field[r][c] <= v) => heights[r][c][1] = 0
        /\ (\A v \in values_of(field) : v <= field[r][c])
               => heights[r][c][1] = heights[r][c][2]

\* Strategy A has just normalised the height map of a field that is not
\* constant.
NormalizedA ==
    /\ gen.pc = "islands"
    /\ gen.island_count = 0
    /\ Cardinality(values_of(gen.noise_height)) >= 2

\* Strategy B has just normalised the heights of a field that is not
\* constant.
NormalizedB ==
    /\ perlin.pc = "water"
    /\ Cardinality(values_of(perlin.noise)) >= 2

MaxStack == 20

\* Line 17: bulbs is a u16.
U16 == 65536

\* Lines 71-591.
Technologies ==
    [
      ADVANCED_FLIGHT |->
          [name |-> "Advanced Flight", requirements |-> << "RADIO", "MACHINE_TOOLS" >>, bulbs |-> 1710],
      ALPHABET |->
          [name |-> "Alphabet", requirements |-> << >>, bulbs |-> 30],
      AMPHIBIOUS_WARFARE |->
          [name |-> "Amphibious Warfare", requirements |-> << "ENGINEERING", "TACTICS" >>, bulbs |-> 1350],
      ASTRONOMY |->
          [name |-> "Astronomy", requirements |-> << "MATHEMATICS", "MYSTICISM" >>, bulbs |-> 180],
      ATOMIC_THEORY |->
          [name |-> "Atomic Theory", requirements |-> << "CHEMISTRY", "REFRIGERATION" >>, bulbs |-> 1110],
      AUTOMOBILE |->
          [name |-> "Automobile", requirements |-> << "STEEL", "COMBUSTION" >>, bulbs |-> 1380],
      BANKING |->
          [name |-> "Banking", requirements |-> << "THE_REPUBLIC", "TRADE" >>, bulbs |-> 300],
      BRIDGE_BUILDING |->
          [name |-> "Bridge Building", requirements |-> << "THE_WHEEL", "CONSTRUCTION" >>, bulbs |-> 240],
      BRONZE_WORKING |->
          [name |-> "Bronze Working", requirements |-> << >>, bulbs |-> 30],
      CEREMONIAL_BURIAL |->
          [name |-> "Ceremonial Burial", requirements |-> << >>, bulbs |-> 30],
      CHEMISTRY |->
          [name |-> "Chemistry", requirements |-> << "UNIVERSITY", "MEDICINE" >>, bulbs |-> 480],
      CHIVALRY |->
          [name |-> "Chivalry", requirements |-> << "FEUDALISM", "HORSEBACK_RIDING" >>, bulbs |-> 300],
      CODE_OF_LAWS |->
          [name |-> "Code of Laws", requirements |-> << "ALPHABET" >>, bulbs |-> 60],
      COMBINED_ARMS |->
          [name |-> "Combined Arms", requirements |-> << "MOBILE_WARFARE", "ADVANCED_FLIGHT" >>, bulbs |-> 1800],
      COMBUSTION |->
          [name |-> "Combustion", requirements |-> << "ENGINEERING", "REFINING" >>, bulbs |-> 1320],
      COMMUNISM |->
          [name |-> "Communism", requirements |-> << "INDUSTRIALIZATION", "THEOLOGY" >>, bulbs |-> 1260],
      COMPUTERS |->
          [name |-> "Computers", requirements |-> << "MINIATURIZATION", "RADIO" >>, bulbs |-> 1680],
      CONSCRIPTION |->
          [name |-> "Conscription", requirements |-> << "METALLURGY", "DEMOCRACY" >>, bulbs |-> 780],
      CONSTRUCTION |->
          [name |-> "Construction", requirements |-> << "MASONRY", "IRON_WORKING" >>, bulbs |-> 150],
      THE_CORPORATION |->
          [name |-> "The Corporation", requirements |-> << "ECONOMICS", "INDUSTRIALIZATION" >>, bulbs |-> 1200],
      CURRENCY |->
          [name |-> "Currency", requirements |-> << "BRONZE_WORKING" >>, bulbs |-> 60],
      DEMOCRACY |->
          [name |-> "Democracy", requirements |-> << "BANKING", "INVENTION" >>, bulbs |-> 570],
      ECONOMICS |->
          [name |-> "Economics", requirements |-> << "UNIVERSITY", "BANKING" >>, bulbs |-> 510],
      ELECTRICITY |->
          [name |-> "Electricity", requirements |-> << "THEORY_OF_GRAVITY", "METALLURGY" >>, bulbs |-> 900],
      ELECTRONICS |->
          [name |-> "Electronics", requirements |-> << "ELECTRICITY", "THE_CORPORATION" >>, bulbs |-> 1290],
      ENGINEERING |->
          [name |-> "Engineering", requirements |-> << "ELECTRICITY", "STEAM_ENGINE" >>, bulbs |-> 1110],
      ENVIROMENTALISM |->
          [name |-> "Enviromentalism", requirements |-> << "SPACE_FLIGHT", "RECYCLING" >>, bulbs |-> 1980],
      ESPIONAGE |->
          [name |-> "Espionage", requirements |-> << "DEMOCRACY", "COMMUNISM" >>, bulbs |-> 1320],
      EXPLOSIVES |->
          [name |-> "Explosives", requirements |-> << "CHEMISTRY", "GUNPOWDER" >>, bulbs |-> 810],
      FEUDALISM |->
          [name |-> "Feudalism", requirements |-> << "MONARCHY", "IRON_WORKING" >>, bulbs |-> 240],
      FLIGHT |->
          [name |-> "Flight", requirements |-> << "COMBUSTION", "TACTICS" >>, bulbs |-> 1500],
      FUSION_POWER |->
          [name |-> "Fusion Power", requirements |-> << "SUPERCONDUCTORS", "LABOR_UNION" >>, bulbs |-> 2310],
      GENETIC_ENGINEERING |->
          [name |-> "Genetic Engineering", requirements |-> << "THE_CORPORATION", "REFRIGERATION" >>, bulbs |-> 1350],
      GUERILLA_WARFARE |->
          [name |-> "Guerilla Warfare", requirements |-> << "COMMUNISM", "TACTICS" >>, bulbs |-> 1440],
      GUNPOWDER |->
          [name |-> "Gunpowder", requirements |-> << "INVENTION", "FEUDALISM" >>, bulbs |-> 510],
      HORSEBACK_RIDING |->
          [name |-> "Horseback Riding", requirements |-> << >>, bulbs |-> 30],
      INDUSTRIALIZATION |->
          [name |-> "Industrialization", requirements |-> << "BANKING", "RAILROAD" >>, bulbs |-> 1140],
      INVENTION |->
          [name |-> "Invention", requirements |-> << "LITERACY", "BRIDGE_BUILDING" >>, bulbs |-> 390],
      IRON_WORKING |->
          [name |-> "Iron Working", requirements |-> << "BRONZE_WORKING", "WARRIOR_CODE" >>, bulbs |-> 90],
      LABOR_UNION |->
          [name |-> "Labor Union", requirements |-> << "COMMUNISM", "MOBILE_WARFARE" >>, bulbs |-> 1740],
      LASER |->
          [name |-> "Laser", requirements |-> << "NUCLEAR_POWER", "COMPUTERS" >>, bulbs |-> 1950],
      LEADERSHIP |->
          [name |-> "Leadership", requirements |-> << "GUNPOWDER", "CHIVALRY" >>, bulbs |-> 570],
      LITERACY |->
          [name |-> "Literacy", requirements |-> << "WRITING", "CODE_OF_LAWS" >>, bulbs |-> 120],
      MACHINE_TOOLS |->
          [name |-> "Machine Tools", requirements |-> << "STEEL", "TACTICS" >>, bulbs |-> 1440],
      MAGNETISM |->
          [name |-> "Magnetism", requirements |-> << "ASTRONOMY", "SEAFARING" >>, bulbs |-> 300],
      MAP_MAKING |->
          [name |-> "Map Making", requirements |-> << "ALPHABET" >>, bulbs |-> 60],
      MASONRY |->
          [name |-> "Masonry", requirements |-> << >>, bulbs |-> 30],
      MASS_PRODUCTION |->
          [name |-> "Mass Production", requirements |-> << "THE_CORPORATION", "AUTOMOBILE" >>, bulbs |-> 1470],
      MATHEMATICS |->
          [name |-> "Mathematics", requirements |-> << "ALPHABET", "MASONRY" >>, bulbs |-> 90],
      MEDICINE |->
          [name |-> "Medicine", requirements |-> << "PHILOSOPHY", "TRADE" >>, bulbs |-> 360],
      METALLURGY |->
          [name |-> "Metallurgy", requirements |-> << "MATHEMATICS", "GUNPOWDER" >>, bulbs |-> 570],
      MINIATURIZATION |->
          [name |-> "Miniaturization", requirements |-> << "ELECTRONICS", "COMBUSTION" >>, bulbs |-> 1440],
      MOBILE_WARFARE |->
          [name |-> "Mobile Warfare", requirements |-> << "AUTOMOBILE", "MACHINE_TOOLS" >>, bulbs |-> 1590],
      MONARCHY |->
          [name |-> "Monarchy", requirements |-> << "CODE_OF_LAWS", "CEREMONIAL_BURIAL" >>, bulbs |-> 120],
      MONOTHEISM |->
          [name |-> "Monotheism", requirements |-> << "ASTRONOMY", "POLYTHEISM" >>, bulbs |-> 270],
      MYSTICISM |->
          [name |-> "Mysticism", requirements |-> << "CEREMONIAL_BURIAL" >>, bulbs |-> 60],
      NAVIGATION |->
          [name |-> "Navigation", requirements |-> << "PHYSICS", "INVENTION" >>, bulbs |-> 690],
      NUCLEAR_FISSION |->
          [name |-> "Nuclear Fission", requirements |-> << "ATOMIC_THEORY", "MASS_PRODUCTION" >>, bulbs |-> 1590],
      NUCLEAR_POWER |->
          [name |-> "Nuclear Power", requirements |-> << "NUCLEAR_FISSION", "MINIATURIZATION" >>, bulbs |-> 1680],
      PHILOSOPHY |->
          [name |-> "Philosophy", requirements |-> << "LITERACY", "MYSTICISM" >>, bulbs |-> 210],
      PHYSICS |->
          [name |-> "Physics", requirements |-> << "MAGNETISM", "THE_WHEEL" >>, bulbs |-> 390],
      PLASTICS |->
          [name |-> "Plastics", requirements |-> << "MASS_PRODUCTION", "ROBOTICS" >>, bulbs |-> 1890],
      POLYTHEISM |->
          [name |-> "Polytheism", requirements |-> << "CEREMONIAL_BURIAL", "HORSEBACK_RIDING" >>, bulbs |-> 90],
      POTTERY |->
          [name |-> "Pottery", requirements |-> << >>, bulbs |-> 30],
      RADIO |->
          [name |-> "Radio", requirements |-> << "ELECTRONICS", "FLIGHT" >>, bulbs |-> 1620],
      RAILROAD |->
          [name |-> "Railroad", requirements |-> << "METALLURGY", "STEAM_ENGINE" >>, bulbs |-> 1050],
      RECYCLING |->
          [name |-> "Recycling", requirements |-> << "MASS_PRODUCTION", "SANITATION" >>, bulbs |-> 1530],
      REFINING |->
          [name |-> "Refining", requirements |-> << "INDUSTRIALIZATION", "EXPLOSIVES" >>, bulbs |-> 1200],
      REFRIGERATION |->
          [name |-> "Refrigeration", requirements |-> << "ELECTRICITY", "SANITATION" >>, bulbs |-> 1050],
      ROBOTICS |->
          [name |-> "Robotics", requirements |-> << "COMPUTERS", "MOBILE_WARFARE" >>, bulbs |-> 1830],
      ROCKETRY |->
          [name |-> "Rocketry", requirements |-> << "MINIATURIZATION", "ADVANCED_FLIGHT" >>, bulbs |-> 1770],
      SANITATION |->
          [name |-> "Sanitation", requirements |-> << "MEDICINE", "BRIDGE_BUILDING" >>, bulbs |-> 600],
      SEAFARING |->
          [name |-> "Seafaring", requirements |-> << "MAP_MAKING", "POTTERY" >>, bulbs |-> 120],
      SPACE_FLIGHT |->
          [name |-> "Space Flight", requirements |-> << "COMPUTERS", "ROCKETRY" >>, bulbs |-> 1830],
      STEALTH |->
          [name |-> "Stealth", requirements |-> << "PLASTICS", "SPACE_FLIGHT" >>, bulbs |-> 2010],
      STEAM_ENGINE |->
          [name |-> "Steam Engine", requirements |-> << "CHEMISTRY", "NAVIGATION" >>, bulbs |-> 900],
      STEEL |->
          [name |-> "Steel", requirements |-> << "INDUSTRIALIZATION", "ENGINEERING" >>, bulbs |-> 1260],
      SUPERCONDUCTORS |->
          [name |-> "Superconductors", requirements |-> << "LASER", "SPACE_FLIGHT" >>, bulbs |-> 2100],
      TACTICS |->
          [name |-> "Tactics", requirements |-> << "CONSCRIPTION", "LEADERSHIP" >>, bulbs |-> 870],
      THE_REPUBLIC |->
          [name |-> "The Republic", requirements |-> << "CODE_OF_LAWS", "LITERACY" >>, bulbs |-> 150],
      THE_WHEEL |->
          [name |-> "The Wheel", requirements |-> << "HORSEBACK_RIDING" >>, bulbs |-> 60],
      THEOLOGY |->
          [name |-> "Theology", requirements |-> << "PHILOSOPHY", "MONOTHEISM" >>, bulbs |-> 420],
      THEORY_OF_GRAVITY |->
          [name |-> "Theory of Gravity", requirements |-> << "UNIVERSITY", "PHYSICS" >>, bulbs |-> 570],
      TRADE |->
          [name |-> "Trade", requirements |-> << "POTTERY", "CURRENCY" >>, bulbs |-> 120],
      UNIVERSITY |->
          [name |-> "University", requirements |-> << "MATHEMATICS", "PHILOSOPHY" >>, bulbs |-> 300],
      WARRIOR_CODE |->
          [name |-> "Warrior Code", requirements |-> << >>, bulbs |-> 30],
      WRITING |->
          [name |-> "Writing", requirements |-> << "ALPHABET" >>, bulbs |-> 60]
    ]

\* Lines 593-681.
ALL_TECHNOLOGIES ==
    <<
        "ADVANCED_FLIGHT", "ALPHABET", "AMPHIBIOUS_WARFARE", "ASTRONOMY",
        "ATOMIC_THEORY", "AUTOMOBILE", "BANKING", "BRIDGE_BUILDING",
        "BRONZE_WORKING", "CEREMONIAL_BURIAL", "CHEMISTRY", "CHIVALRY",
        "CODE_OF_LAWS", "COMBINED_ARMS", "COMBUSTION", "COMMUNISM",
        "COMPUTERS", "CONSCRIPTION", "CONSTRUCTION", "THE_CORPORATION",
        "CURRENCY", "DEMOCRACY", "ECONOMICS", "ELECTRICITY", "ELECTRONICS",
        "ENGINEERING", "ENVIROMENTALISM", "ESPIONAGE", "EXPLOSIVES",
        "FEUDALISM", "FLIGHT", "FUSION_POWER", "GENETIC_ENGINEERING",
        "GUERILLA_WARFARE", "GUNPOWDER", "HORSEBACK_RIDING",
        "INDUSTRIALIZATION", "INVENTION", "IRON_WORKING", "LABOR_UNION",
        "LASER", "LEADERSHIP", "LITERACY", "MACHINE_TOOLS", "MAGNETISM",
        "MAP_MAKING", "MASONRY", "MASS_PRODUCTION", "MATHEMATICS", "MEDICINE",
        "METALLURGY", "MINIATURIZATION", "MOBILE_WARFARE", "MONARCHY",
        "MONOTHEISM", "MYSTICISM", "NAVIGATION", "NUCLEAR_FISSION",
        "NUCLEAR_POWER", "PHILOSOPHY", "PHYSICS", "PLASTICS", "POLYTHEISM",
        "POTTERY", "RADIO", "RAILROAD", "RECYCLING", "REFINING",
        "REFRIGERATION", "ROBOTICS", "ROCKETRY", "SANITATION", "SEAFARING",
        "SPACE_FLIGHT", "STEALTH", "STEAM_ENGINE", "STEEL", "SUPERCONDUCTORS",
        "TACTICS", "THE_REPUBLIC", "THE_WHEEL", "THEOLOGY",
        "THEORY_OF_GRAVITY", "TRADE", "UNIVERSITY", "WARRIOR_CODE", "WRITING"
    >>

TechnologyNames == { ALL_TECHNOLOGIES[i] : i \in 1..Len(ALL_TECHNOLOGIES) }

requirements(tech) == Technologies[tech].requirements

bulbs(tech) == Technologies[tech].bulbs

\* Lines 37-42: each requirement is inserted into the set, and so are,
\* by the recursive call on it, its own requirements.
RECURSIVE techs_required_recursive(_, _)
techs_required_recursive(self, set) ==
    set \cup UNION { techs_required_recursive(requirements(self)[i],
                                              {requirements(self)[i]}) :
                         i \in 1..Len(requirements(self)) }

\* Lines 50 and 67: the sum of the bulbs of a set, in u16.
RECURSIVE sum_bulbs(_)
sum_bulbs(set) ==
    IF set = {} THEN 0
    ELSE LET tech == CHOOSE t \in set : TRUE
         IN  (bulbs(tech) + sum_bulbs(set \ {tech})) % U16

\* Lines 47-51.
total_bulbs(self) ==
    (sum_bulbs(techs_required_recursive(self, {})) + bulbs(self)) % U16

\* Lines 63-68.
total_bulbs_for_combined(self, other) ==
    (sum_bulbs(techs_required_recursive(other, techs_required_recursive(self, {})))
        + bulbs(self) + bulbs(other)) % U16

\* No call has been made yet.
ResearchInit ==
    /\ research = [pc |-> "ready"]
    /\ TileIdle
    /\ WorldIdle
    /\ GenIdle
    /\ PerlinIdle

\* Lines 47-49: total_bulbs is called on a technology of ALL_TECHNOLOGIES
\* and calls techs_required_recursive with an empty set.
TotalBulbs ==
    /\ research.pc = "ready"
    /\ \E self \in TechnologyNames :
          research' = [pc |-> "walking", op |-> "total_bulbs", self |-> self,
                       stack |-> << [tech |-> self, next |-> 1] >>,
                       set |-> {}, result |-> 0]
    /\ UNCHANGED << tile_vars, world_vars, gen, perlin >>

TechsRequiredCallSelf ==
    /\ research.pc = "walking"
    /\ Len(research.stack) < MaxStack
    /\ LET depth == Len(research.stack)
           frame == research.stack[depth]
       IN  /\ frame.next <= Len(requirements(frame.tech))
           /\ research' =
                  [research EXCEPT
                      !.set = @ \cup {requirements(frame.tech)[frame.next]},
                      !.stack = Append([@ EXCEPT ![depth].next = frame.next + 1],
                                       [tech |-> frame.tech, next |-> 1])]
    /\ UNCHANGED << tile_vars, world_vars, gen, perlin >>

\* Lines 38-41, one iteration of the loop of the innermost call: the next
\* requirement is inserted and techs_required_recursive is called on it.
TechsRequiredCall ==
    /\ research.pc = "walking"
    /\ Len(research.stack) < MaxStack
    /\ LET depth == Len(research.stack)
           frame == research.stack[depth]
       IN  /\ frame.next <= Len(requirements(frame.tech))
           /\ research' =
                  [research EXCEPT
                      !.set = @ \cup {requirements(frame.tech)[frame.next]},
                      !.stack = Append([@ EXCEPT ![depth].next = frame.next + 1],
                                       [tech |-> requirements(frame.tech)[frame.next],
                                        next |-> 1])]
    /\ UNCHANGED << tile_vars, world_vars, gen, perlin >>

\* Line 42: the loop of the innermost call is over and the call returns.
TechsRequiredReturn ==
    /\ research.pc = "walking"
    /\ LET depth == Len(research.stack)
           frame == research.stack[depth]
       IN  /\ frame.next > Len(requirements(frame.tech))
           /\ research' =
                  [research EXCEPT
                      !.stack = SubSeq(@, 1, depth - 1),
                      !.pc = IF depth = 1 THEN "sum" ELSE "walking"]
    /\ UNCHANGED << tile_vars, world_vars, gen, perlin >>

\* Line 50: the bulbs of the set are added up and total_bulbs returns.
TotalBulbsSum ==
    /\ research.pc = "sum"
    /\ research' = [research EXCEPT
                       !.pc = "done",
                       !.result = (sum_bulbs(research.set) + bulbs(research.self)) % U16]
    /\ UNCHANGED << tile_vars, world_vars, gen, perlin >>

\* Lines 63-68: total_bulbs_for_combined is called on a technology with
\* another, different one.
TotalBulbsForCombined ==
    /\ research.pc = "ready"
    /\ \E self \in TechnologyNames, other \in TechnologyNames :
          /\ self # other
          /\ research' =
                 [pc |-> "done", op |-> "total_bulbs_for_combined",
                  self |-> self, other |-> other, stack |-> << >>,
                  set |-> techs_required_recursive(
                              other, techs_required_recursive(self, {})),
                  result |-> total_bulbs_for_combined(self, other)]
    /\ UNCHANGED << tile_vars, world_vars, gen, perlin >>

ResearchNext ==
    \/ TotalBulbs
    \/ TechsRequiredCall
    \/ TechsRequiredReturn
    \/ TotalBulbsSum
    \/ TotalBulbsForCombined

SpecResearch == ResearchInit /\ [][ResearchNext]_vars

\* C24: the requirement graph has no cycle, so the recursive walk that
\* total_bulbs starts ends for every technology of ALL_TECHNOLOGIES: no
\* technology is ever on the call stack twice, which bounds the depth of
\* the recursion by the number of technologies, and the innermost call can
\* always go on or return.
C24_RequirementWalkTerminates ==
    research.pc = "walking" =>
        LET depth == Len(research.stack)
        IN  /\ \A i \in 1..depth : \A j \in 1..depth :
                   research.stack[i].tech = research.stack[j].tech => i = j
            /\ depth <= Len(ALL_TECHNOLOGIES)
            /\ \/ depth < MaxStack
               \/ research.stack[depth].next
                      > Len(requirements(research.stack[depth].tech))

\* total_bulbs has returned for a technology that has requirements.
C24_Witness ==
    /\ research.pc = "done"
    /\ research.op = "total_bulbs"
    /\ research.set # {}

\* C25: for two different technologies, total_bulbs_for_combined is the sum
\* of the bulbs of the two and of all their transitive requirements, each
\* technology counted once, also when one of the two is a requirement of
\* the other.
C25_CombinedCountsOnce ==
    (research.pc = "done" /\ research.op = "total_bulbs_for_combined") =>
        research.result =
            sum_bulbs({research.self, research.other}
                          \cup techs_required_recursive(research.self, {})
                          \cup techs_required_recursive(research.other, {}))

\* The overlay of Strategy A has just dealt with the cell (OverlaidX,
\* OverlaidY), whose terrain and feature value asked for Forest.
OverlaidX == (gen.cell - 1) % gen.params.width

OverlaidY == (gen.cell - 1) \div gen.params.width

OverlaidForest ==
    /\ gen.pc = "overlay"
    /\ gen.cell >= 1
    /\ becomes_forest(gen.before[OverlaidY][OverlaidX],
                      gen.noise_feature[OverlaidY][OverlaidX])

\* C26: in the overlay of Strategy A, the cell whose terrain and feature
\* value ask for Forest becomes Forest itself, and no other cell changes.
C26_ForestAtTestedCell ==
    OverlaidForest =>
        gen.world = [gen.before EXCEPT ![OverlaidY][OverlaidX] = "Forest"]

\* The flags whose BuildFlag outcome the rule table has for a terrain.
buildable_flags(terrain) ==
    { flag \in TerrainFlags :
        \/ flag = "HAS_IRRIGATION"
              /\ Terrain_transform(terrain, "Irrigation").tag = "BuildIrrigation"
        \/ flag = "HAS_MINE"
              /\ Terrain_transform(terrain, "Mining").tag = "BuildMine"
        \/ flag = "HAS_ROAD"
              /\ Terrain_transform(terrain, "Road").tag = "BuildRoad" }

\* C27: on a tile created with empty flags, whatever start_transform and
\* tick_transform calls follow, HAS_IRRIGATION, HAS_MINE and HAS_ROAD are
\* set only if the rule table has the BuildFlag outcome of that flag for
\* the current terrain, no other flag is set, and a water tile has none.
C27_FlagsFollowTerrain ==
    /\ tile.flags \subseteq buildable_flags(tile.terrain)
    /\ is_water(tile.terrain) => tile.flags = {}

\* A terrain change has left a flag on the tile.
C27_Witness ==
    /\ TerrainChanged
    /\ tile.flags # {}
    /\ tile.terrain # call.pre.terrain

\* C28: on a tile created by Tile::new, whatever start_transform and
\* tick_transform calls follow, also start_transform calls made while a
\* transform is in progress, the tick_transform that completes a transform
\* never finds an Impossible rule-table entry: its unreachable!() arm is
\* never executed.
C28_UnreachableNeverHit ==
    /\ panicked # "unreachable"
    /\ Completed => CompletedEntry.tag # "Impossible"

\* A transform has been completed and the tile is NotTransforming again.
C28_Witness ==
    /\ Completed
    /\ panicked = "none"
    /\ tile.transform_status = NotTransforming

\* The consolidation pass of Strategy A has just ended.
Consolidated == gen.pc = "features"

\* C29: the consolidation pass of Strategy A changes no terrain: for every
\* water component island_size and ocean_size are equal when its flood
\* ends, so island_size < ocean_size is never true and the grid after the
\* pass is the grid the classification made.
C29_ConsolidationChangesNothing ==
    Consolidated =>
        /\ \A i \in 1..Len(gen.components) :
              gen.components[i][1] = gen.components[i][2]
        /\ gen.world = add_terrain_types(gen.params, gen.height_map)

\* The pass has flooded a component of several cells.
C29_Witness ==
    /\ Consolidated
    /\ \E i \in 1..Len(gen.components) : gen.components[i][1] >= 2

\* The Ocean cells of the grid of Strategy A.
GenOceanCells ==
    { c \in Cells(gen.params) : gen.world[c[2]][c[1]] = "Ocean" }

\* C30: every counted step of the island loop of Strategy A carves a cell
\* that was not carved before, and after classification and consolidation,
\* before the overlay, the carved cells are Ocean: at least island_target
\* cells are.
C30_CarvingAddsWater ==
    /\ gen.pc # "idle" => Cardinality(gen.carved) = gen.island_count
    /\ Consolidated =>
          /\ gen.carved \subseteq GenOceanCells
          /\ Cardinality(GenOceanCells) >= island_target(gen.params)

\* The loop has carved the cells of its target and the passes have run.
C30_Witness ==
    /\ Consolidated
    /\ island_target(gen.params) >= 2
    /\ Cardinality(gen.carved) = island_target(gen.params)

====
